---- MODULE Spec2Model ----
(***************************************************************************)
(* Model of the dashboard controller's input and display core:             *)
(*   - the debounce engine  (src/src/drivers/buttons/mod.rs)               *)
(*   - the SSD1322 display transport (src/src/drivers/display/ssd1322.rs)  *)
(***************************************************************************)
EXTENDS Integers, Sequences, FiniteSets, TLC

(***************************************************************************)
(* Bounds of the model (not program constants).                            *)
(***************************************************************************)
\* cap of the observer's count of consecutive identical samples
MaxRun == 7
\* pixel writes allowed between two clears of the framebuffer
MaxDraws == 2
\* polls in each half of the press/release scenario
ScriptRun == 10
\* render cycles followed from a starting point of the display task
MaxCycles == 2
\* largest elapsed time (ms, in steps of ElapsedStep) the gauges are drawn for
MaxElapsed == 1200
ElapsedStep == 10
\* milliseconds a cycle of the steady render loop takes
CyclePeriod == 520
\* largest motor velocity (whole units, either direction) the speed is drawn for
VelocityRange == 3

(***************************************************************************)
(* Program constants.                                                      *)
(***************************************************************************)
NUM_BUTTONS == 10
NUM_TOGGLES == 3
THRESHOLD == 5
EVENT_CAPACITY == 10

\* ssd1322.rs
DISPLAY_WIDTH == 256
DISPLAY_HEIGHT == 64
CHUNK_SIZE == 256
CMD_SET_COLUMN_ADDR == 21   \* 0x15
CMD_SET_ROW_ADDR == 117     \* 0x75
CMD_WRITE_RAM == 92         \* 0x5C
MIN_SEG == 28               \* 0x1C
MAX_SEG == 91               \* 0x5B

VARIABLES
    \* ---- ButtonState (buttons/mod.rs:75-84)
    states,             \* [bool; 10]  debounced states
    raw_states,         \* [bool; 10]  last seen raw states
    debounce_counters,  \* [u8; 10]
    toggle_states,      \* [bool; 3]   left_turn, right_turn, lock
    \* ---- result of the last update()
    events,             \* heapless::Vec<ButtonEvent, 10> returned by the last poll
    push_failed,        \* TRUE once a push into the event list returned Err
    \* ---- observers of the input (what the pins delivered)
    sample,             \* the raw vector read by the last poll (local `raw`)
    run,                \* per button: consecutive polls, up to the last one,
                        \* that carried sample[i] (capped at MaxRun)
    \* ---- scripted scenarios
    mode,               \* "free" | "script"
    target,             \* index of the button a scenario is about
    pollNo,             \* polls of the script done so far
    evlog,              \* per scripted poll: the events of the target button
    \* ---- Ssd1322Display (ssd1322.rs:43-49)
    framebuffer,        \* [u8; 16384], held as its non-zero cells (index -> value)
    dc, cs, rst,        \* levels of the control lines (0 low, 1 high)
    spi_ok,             \* result of the last spi.write (dropped by `.ok()`)
    \* ---- control state of the display task
    prog,               \* "off" | "init" | "flush" | "none" (between calls)
    ip,                 \* next instruction of the running routine
    xfer,               \* TRUE while a spi.write is awaited
    chunk_start,        \* loop variable of flush
    packed_chunk,       \* local buffer of flush
    idx_fault,          \* TRUE once an array index was out of range (panic)
    returned,           \* routine that returned in the last step ("" if none)
    draws,              \* pixel writes since the last clear
    \* ---- observer of the bus
    bus,                \* transfers and delays since the running routine began;
                        \* the bytes of a transfer are held as their length and
                        \* their non-zero bytes (position -> value)
    failed,             \* observer: TRUE once a spi.write has returned Err
    \* ---- display_task (tasks/display.rs:84-186) and button_task
    dpc,                \* position of display_task ("free": the driver's
                        \* operations are called in any order)
    bpc,                \* position of button_task: "update" | "sleep"
    current_screen,     \* state.current_screen: u8
    time_since_vc,      \* u32, held as two 16-bit halves [hi, lo]
    time_since_bms,     \* u32, held as two 16-bit halves [hi, lo]
    cycles,             \* observer: render cycles begun
    \* ---- DisplayState and the locals of the render loop
    left_blink,         \* state.left_blink
    right_blink,        \* state.right_blink
    last_blink,         \* state.last_blink: u32, as two 16-bit halves
    current_time,       \* the last reading of the time source, as u32
    clock,              \* the time source: start_time.elapsed().as_millis()
                        \* as u32, held as two 16-bit halves
    vehicle_state,      \* the fields of VehicleState the widgets are given
    \* ---- observers of the render loop
    elapsed,            \* milliseconds the time source advanced in this run
    flip_at,            \* value of `elapsed` at the last flip of the phases
    flips,              \* flips of the blink phases so far
    glyphs,             \* the text-drawing calls since the last fill
    flushes             \* calls of flush made by the render loop

btnVars == <<states, raw_states, debounce_counters, toggle_states, events,
             push_failed, sample, run>>
scriptVars == <<mode, target, pollNo, evlog>>
dispVars == <<framebuffer, dc, cs, rst, spi_ok, prog, ip, xfer, chunk_start,
              packed_chunk, idx_fault, returned, draws, bus, failed>>
loopVars == <<dpc, bpc, current_screen, time_since_vc, time_since_bms, cycles>>
uiVars == <<left_blink, right_blink, last_blink, current_time, clock,
            vehicle_state, elapsed, flip_at, flips, glyphs, flushes>>
vars == <<btnVars, scriptVars, dispVars, loopVars, uiVars>>

Buttons == 0 .. (NUM_BUTTONS - 1)

(***************************************************************************)
(* ButtonId and the index -> id match of update().                         *)
(***************************************************************************)
ButtonIdOf(i) ==
    CASE i = 0 -> "CruiseDown"
      [] i = 1 -> "CruiseUp"
      [] i = 2 -> "Reverse"
      [] i = 3 -> "PushToTalk"
      [] i = 4 -> "Horn"
      [] i = 5 -> "PowerSave"
      [] i = 6 -> "Rearview"
      [] i = 7 -> "LeftTurn"
      [] i = 8 -> "RightTurn"
      [] i = 9 -> "Lock"
      [] OTHER -> "continue"

IsToggleId(id) == id \in {"LeftTurn", "RightTurn", "Lock"}

ToggleIdxOf(id) ==
    CASE id = "LeftTurn"  -> 0
      [] id = "RightTurn" -> 1
      [] id = "Lock"      -> 2
      [] OTHER            -> -1

\* ButtonEvent values
Pressed(id)    == <<"Pressed", id>>
Released(id)   == <<"Released", id>>
Toggled(id, v) == <<"Toggled", id, v>>

(***************************************************************************)
(* ButtonState::new                                                        *)
(***************************************************************************)
NewButtonState ==
    [ states            |-> [i \in Buttons |-> FALSE],
      raw_states        |-> [i \in Buttons |-> FALSE],
      debounce_counters |-> [i \in Buttons |-> 0],
      toggle_states     |-> [t \in 0 .. (NUM_TOGGLES - 1) |-> FALSE] ]

(***************************************************************************)
(* heapless::Vec::push with its result dropped (`let _ = events.push(..)`) *)
(***************************************************************************)
Push(st, e) ==
    IF Len(st.events) < EVENT_CAPACITY
    THEN [st EXCEPT !.events = Append(@, e)]
    ELSE [st EXCEPT !.push_failed = TRUE]

\* faulty variant of GenerateEvents: a toggle button flips on the release edge too
GenerateEventsBothEdges(st, i) ==
    LET button_id == ButtonIdOf(i) IN
    IF button_id = "continue" THEN st
    ELSE IF IsToggleId(button_id)
    THEN LET toggle_idx == ToggleIdxOf(button_id)
             flipped == [st EXCEPT !.toggle_states[toggle_idx] = ~@]
         IN  Push(flipped, Toggled(button_id, flipped.toggle_states[toggle_idx]))
    ELSE IF st.states[i]
         THEN Push(st, Pressed(button_id))
         ELSE Push(st, Released(button_id))

\* faulty variant of GenerateEvents: every toggle button flips entry 0
GenerateEventsSharedToggle(st, i) ==
    LET button_id == ButtonIdOf(i) IN
    IF button_id = "continue" THEN st
    ELSE IF IsToggleId(button_id)
    THEN IF st.states[i]
         THEN LET flipped == [st EXCEPT !.toggle_states[0] = ~@]
              IN  Push(flipped, Toggled(button_id, flipped.toggle_states[0]))
         ELSE st
    ELSE IF st.states[i]
         THEN Push(st, Pressed(button_id))
         ELSE Push(st, Released(button_id))

(***************************************************************************)
(* Event generation for button i once its transition was accepted          *)
(* (mod.rs:131-168); st.states[i] already holds the new state.             *)
(***************************************************************************)
GenerateEvents(st, i) ==
    LET button_id == ButtonIdOf(i) IN
    IF button_id = "continue" THEN st
    ELSE IF IsToggleId(button_id)
    THEN IF st.states[i]
         THEN LET toggle_idx == ToggleIdxOf(button_id)
                  flipped == [st EXCEPT !.toggle_states[toggle_idx] = ~@]
              IN  Push(flipped,
                       Toggled(button_id, flipped.toggle_states[toggle_idx]))
         ELSE st
    ELSE IF st.states[i]
         THEN Push(st, Pressed(button_id))
         ELSE Push(st, Released(button_id))

\* faulty variant of DebounceButton: the transition is accepted two polls early
DebounceButtonEarly(st, raw, i) ==
    IF raw[i] # st.raw_states[i]
    THEN [st EXCEPT !.debounce_counters[i] = 0,
                    !.raw_states[i] = raw[i]]
    ELSE IF st.debounce_counters[i] < THRESHOLD
    THEN LET inc == [st EXCEPT !.debounce_counters[i] = @ + 1] IN
         IF inc.debounce_counters[i] = THRESHOLD - 2 /\ inc.states[i] # raw[i]
         THEN GenerateEvents([inc EXCEPT !.states[i] = raw[i]], i)
         ELSE inc
    ELSE st

\* faulty variant of DebounceButton: a differing sample does not reset the counter
DebounceButtonNoReset(st, raw, i) ==
    IF raw[i] # st.raw_states[i]
    THEN [st EXCEPT !.raw_states[i] = raw[i]]
    ELSE IF st.debounce_counters[i] < THRESHOLD
    THEN LET inc == [st EXCEPT !.debounce_counters[i] = @ + 1] IN
         IF inc.debounce_counters[i] = THRESHOLD /\ inc.states[i] # raw[i]
         THEN GenerateEvents([inc EXCEPT !.states[i] = raw[i]], i)
         ELSE inc
    ELSE st

\* faulty variant of DebounceButton: the check `states[i] != raw[i]` is missing
DebounceButtonNoStateCheck(st, raw, i) ==
    IF raw[i] # st.raw_states[i]
    THEN [st EXCEPT !.debounce_counters[i] = 0,
                    !.raw_states[i] = raw[i]]
    ELSE IF st.debounce_counters[i] < THRESHOLD
    THEN LET inc == [st EXCEPT !.debounce_counters[i] = @ + 1] IN
         IF inc.debounce_counters[i] = THRESHOLD
         THEN GenerateEvents([inc EXCEPT !.states[i] = raw[i]], i)
         ELSE inc
    ELSE st

(***************************************************************************)
(* One iteration of the debounce loop (mod.rs:116-171) for button i.       *)
(***************************************************************************)
DebounceButton(st, raw, i) ==
    IF raw[i] # st.raw_states[i]
    THEN [st EXCEPT !.debounce_counters[i] = 0,
                    !.raw_states[i] = raw[i]]
    ELSE IF st.debounce_counters[i] < THRESHOLD
    THEN LET inc == [st EXCEPT !.debounce_counters[i] = @ + 1] IN
         IF inc.debounce_counters[i] = THRESHOLD /\ inc.states[i] # raw[i]
         THEN GenerateEvents([inc EXCEPT !.states[i] = raw[i]], i)
         ELSE inc
    ELSE st

\* the loop `for i in 0..10`, in ascending order
RECURSIVE DebounceFrom(_, _, _)
DebounceFrom(st, raw, i) ==
    IF i >= NUM_BUTTONS THEN st
    ELSE DebounceFrom(DebounceButton(st, raw, i), raw, i + 1)

\* the loop run in descending order (used by the faulty variant of Update)
RECURSIVE DebounceDown(_, _, _)
DebounceDown(st, raw, i) ==
    IF i < 0 THEN st
    ELSE DebounceDown(DebounceButton(st, raw, i), raw, i - 1)

\* faulty variant of Update: the buttons are visited from Lock down to CruiseDown
UpdateDescending(bs, raw) ==
    DebounceDown([ states            |-> bs.states,
                   raw_states        |-> bs.raw_states,
                   debounce_counters |-> bs.debounce_counters,
                   toggle_states     |-> bs.toggle_states,
                   events            |-> <<>>,
                   push_failed       |-> FALSE ], raw, NUM_BUTTONS - 1)

(***************************************************************************)
(* ButtonState::update: a fresh event list, then the loop.                 *)
(***************************************************************************)
Update(bs, raw) ==
    DebounceFrom([ states            |-> bs.states,
                   raw_states        |-> bs.raw_states,
                   debounce_counters |-> bs.debounce_counters,
                   toggle_states     |-> bs.toggle_states,
                   events            |-> <<>>,
                   push_failed       |-> FALSE ], raw, 0)

CurrentButtonState ==
    [ states            |-> states,
      raw_states        |-> raw_states,
      debounce_counters |-> debounce_counters,
      toggle_states     |-> toggle_states ]

(***************************************************************************)
(* The raw vectors the model feeds: the pins read by update()              *)
(* (mod.rs:102-113), already inverted (TRUE = pressed).  Horn and LeftTurn *)
(* vary independently; the vector with every button pressed makes the      *)
(* other eight move together.                                              *)
(***************************************************************************)
PressedSets == (SUBSET {4, 7}) \cup {Buttons}

Samples == { [i \in Buttons |-> i \in P] : P \in PressedSets }

Min(a, b) == IF a < b THEN a ELSE b

(***************************************************************************)
(* u32 values, held as two 16-bit halves (value = hi * 65536 + lo).        *)
(***************************************************************************)
U32_HALF == 65536

U32(hi, lo) == [hi |-> hi, lo |-> lo]

\* 0u32
U32Zero == U32(0, 0)

\* a + n does not fit 32 bits (n < 65536)
U32AddOverflows(a, n) == a.hi = U32_HALF - 1 /\ a.lo + n >= U32_HALF

\* a + n on 32 bits, wrapping
U32WrappingAdd(a, n) ==
    U32((a.hi + ((a.lo + n) \div U32_HALF)) % U32_HALF, (a.lo + n) % U32_HALF)

\* a >= n (n < 65536)
U32Ge(a, n) == a.hi > 0 \/ a.lo >= n

\* a > n (n < 65536)
U32Gt(a, n) == a.hi > 0 \/ a.lo > n

\* a < b
U32Lt(a, b) == a.hi < b.hi \/ (a.hi = b.hi /\ a.lo < b.lo)

\* a - b on 32 bits, wrapping
U32WrappingSub(a, b) ==
    LET borrow == IF a.lo < b.lo THEN 1 ELSE 0
    IN  U32((a.hi - b.hi - borrow + 2 * U32_HALF) % U32_HALF,
            (a.lo - b.lo + U32_HALF) % U32_HALF)

\* observer: length of the run of identical samples ending with `raw`
NextRun(raw) ==
    [i \in Buttons |->
        IF run[i] > 0 /\ raw[i] = sample[i] THEN Min(run[i] + 1, MaxRun) ELSE 1]

\* the events of one button in an event list
RECURSIVE EventsOf(_, _)
EventsOf(ev, id) ==
    IF ev = <<>> THEN <<>>
    ELSE IF Head(ev)[2] = id THEN <<Head(ev)>> \o EventsOf(Tail(ev), id)
    ELSE EventsOf(Tail(ev), id)

(***************************************************************************)
(* Display transport (ssd1322.rs).                                         *)
(***************************************************************************)
DISPLAY_BUFFER_SIZE == DISPLAY_WIDTH * DISPLAY_HEIGHT

\* ---- arrays held by their non-zero cells
\* the framebuffer with every cell 0 ([0; DISPLAY_BUFFER_SIZE], fill(0))
ZeroFb == [k \in {} |-> 0]

\* self.framebuffer[idx]
FbGet(fb, idx) == IF idx \in DOMAIN fb THEN fb[idx] ELSE 0

\* self.framebuffer[idx] = v
FbSet(fb, idx, v) ==
    IF v = 0
    THEN [k \in (DOMAIN fb) \ {idx} |-> fb[k]]
    ELSE [k \in (DOMAIN fb) \cup {idx} |-> IF k = idx THEN v ELSE fb[k]]

\* a byte slice handed to spi.write
Bytes(s) ==
    [len |-> Len(s),
     nz  |-> [m \in { n \in 1 .. Len(s) : s[n] # 0 } |-> s[m]]]

\* byte m (from 1) of a transferred slice, and the slice as a sequence
ByteAt(b, m) == IF m \in DOMAIN b.nz THEN b.nz[m] ELSE 0
Dense(b) == [m \in 1 .. b.len |-> ByteAt(b, m)]

\* u8 arithmetic of the packing expression
RECURSIVE BitOr(_, _)
BitOr(a, b) ==
    IF a = 0 THEN b
    ELSE IF b = 0 THEN a
    ELSE (IF a % 2 = 1 \/ b % 2 = 1 THEN 1 ELSE 0) + 2 * BitOr(a \div 2, b \div 2)

\* faulty variant of Shl4: the shift is by three bits
Shl3(x) == (x * 8) % 256

\* x << 4 on u8
Shl4(x) == (x * 16) % 256

\* faulty variant of PackPair: the nibbles are swapped
PackPairSwapped(fb, idx) == BitOr(Shl4(FbGet(fb, idx + 1)), FbGet(fb, idx))

\* (self.framebuffer[idx] << 4) | self.framebuffer[idx + 1]
PackPair(fb, idx) == BitOr(Shl4(FbGet(fb, idx)), FbGet(fb, idx + 1))

ChunkEnd(start) == Min(start + CHUNK_SIZE, DISPLAY_BUFFER_SIZE)
ChunkLen(start) == ChunkEnd(start) - start

\* the inner loop of flush (ssd1322.rs:186-189): for i in (0..chunk_len)
\* .step_by(2), packed_chunk[i / 2] = pack(idx, idx + 1), idx = chunk_start + i.
\* The iterations write distinct cells, so the loop is the function below
\* (cells are 1-based here: cell i / 2 of the code is cell i / 2 + 1).
PackChunk(fb, old, start) ==
    [ j \in 1 .. (CHUNK_SIZE \div 2) |->
        IF 2 * (j - 1) < ChunkLen(start)
        THEN PackPair(fb, start + 2 * (j - 1))
        ELSE old[j] ]

\* an index of the inner loop outside its array (a panic in the code)
PackFault(start) ==
    \E j \in 1 .. ((ChunkLen(start) + 1) \div 2) :
        \/ start + 2 * (j - 1) + 1 >= DISPLAY_BUFFER_SIZE
        \/ j > CHUNK_SIZE \div 2

\* faulty variant of DrawPixel: the coordinates are not checked
DrawPixelUnchecked(fb, x, y, luma) == FbSet(fb, x + y * DISPLAY_WIDTH, luma)

\* DrawTarget::draw_iter for one pixel (ssd1322.rs:206-216)
DrawPixel(fb, x, y, luma) ==
    IF x >= 0 /\ x < DISPLAY_WIDTH /\ y >= 0 /\ y < DISPLAY_HEIGHT
    THEN FbSet(fb, x + y * DISPLAY_WIDTH, luma)
    ELSE fb

(***************************************************************************)
(* UI drawing (display_write.rs).  The shades, the pixel primitive and the *)
(* font cell size are defined in files that are not among the sources      *)
(* (the constants of ssd1322.rs named by mod.rs:5, font16.rs); the values  *)
(* below stand for them.  Glyph-drawing routines need the font table and   *)
(* are left out of the frames.                                             *)
(***************************************************************************)
DISPLAY_BLACK == 0
DISPLAY_WHITE == 15
DISPLAY_MID_SHADE == 8
DISPLAY_LOW_SHADE == 4
DISPLAY_VLOW_SHADE == 1
FONT_WIDTH == 8
FONT_HEIGHT == 16

\* self.draw_pixel(x, y, shade) for every (x, y) of a set: in-range cells are
\* written, the others ignored (x, y are usize)
DrawPixels(fb, coords, shade) ==
    LET idxs == { c[1] + c[2] * DISPLAY_WIDTH :
                    c \in { d \in coords : /\ d[1] >= 0 /\ d[1] < DISPLAY_WIDTH
                                           /\ d[2] >= 0 /\ d[2] < DISPLAY_HEIGHT } }
    IN  IF shade = 0
        THEN [k \in (DOMAIN fb) \ idxs |-> fb[k]]
        ELSE [k \in (DOMAIN fb) \cup idxs |-> IF k \in idxs THEN shade ELSE fb[k]]

\* self.fill(shade)
FillFb(shade) ==
    IF shade = 0 THEN ZeroFb
    ELSE [k \in 0 .. (DISPLAY_BUFFER_SIZE - 1) |-> shade]

\* ---- f32 arithmetic of the gauges: a value is m * 2^(-e), m of 24 bits
\* n quotient bits of r / b by long division: <<quotient, remainder>>
RECURSIVE LongDiv(_, _, _, _)
LongDiv(r, b, n, acc) ==
    IF n = 0 THEN <<acc, r>>
    ELSE IF 2 * r >= b THEN LongDiv(2 * r - b, b, n - 1, 2 * acc + 1)
         ELSE LongDiv(2 * r, b, n - 1, 2 * acc)

\* the shift k that brings a into [b, 2b)
RECURSIVE NormShift(_, _)
NormShift(a, b) == IF a >= b THEN 0 ELSE 1 + NormShift(2 * a, b)

RECURSIVE Pow2(_)
Pow2(n) == IF n = 0 THEN 1 ELSE 2 * Pow2(n - 1)

\* round to nearest, ties to even: q with remainder r out of d
RoundEven(q, r, d) ==
    IF 2 * r > d \/ (2 * r = d /\ q % 2 = 1) THEN q + 1 ELSE q

\* a as f32 / b as f32 for integers 0 < a < b < 2^24
F32Div(a, b) ==
    LET k  == NormShift(a, b)
        qr == LongDiv(a * Pow2(k) - b, b, 23, 1)
    IN  [m |-> RoundEven(qr[1], qr[2], b), e |-> k + 23]

\* 30.0 * v
F32Mul30(v) ==
    LET p == 30 * v.m
        s == IF p >= Pow2(28) THEN 5 ELSE 4
    IN  [m |-> RoundEven(p \div Pow2(s), p % Pow2(s), Pow2(s)), e |-> v.e - s]

\* v as usize (v >= 0): the integer part
F32AsUsize(v) == IF v.e > 30 THEN 0 ELSE v.m \div Pow2(v.e)

\* faulty variant of FillEnd: the ratio is not clamped once the source is dead
FillEndUnclamped(time_since, timeout) ==
    IF time_since.hi > 0 THEN 30 * 66
    ELSE (30 * time_since.lo) \div timeout

\* (30.0 * ratio) as usize of write_timeout / write_bms_timeout
\* (display_write.rs:258-266, 315-323)
FillEnd(time_since, timeout) ==
    IF U32Ge(time_since, timeout) THEN 30
    ELSE IF time_since.lo = 0 THEN 0
    ELSE F32AsUsize(F32Mul30(F32Div(time_since.lo, timeout)))

\* draw_box_outline (display_write.rs:387-399)
BoxOutlineCells(x0, y0, width, height) ==
    { <<x, y0>> : x \in x0 .. (x0 + width - 1) }
    \cup { <<x, y0 + height - 1>> : x \in x0 .. (x0 + width - 1) }
    \cup { <<x0, y>> : y \in y0 .. (y0 + height - 1) }
    \cup { <<x0 + width - 1, y>> : y \in y0 .. (y0 + height - 1) }

\* the label pixels, relative to the gauge's corner
VcLabel ==
    { <<13, 3>>, <<13, 4>>, <<13, 5>>, <<14, 6>>, <<15, 5>>, <<15, 3>>,
      <<15, 4>>, <<18, 4>>, <<18, 5>>, <<19, 3>>, <<19, 6>>, <<20, 3>>,
      <<20, 6>> }
BmsLabel ==
    { <<10, 2>>, <<10, 3>>, <<10, 4>>, <<10, 5>>, <<10, 6>>, <<11, 2>>,
      <<11, 4>>, <<11, 6>>, <<12, 3>>, <<12, 5>>,
      <<14, 2>>, <<14, 3>>, <<14, 4>>, <<14, 5>>, <<14, 6>>, <<15, 3>>,
      <<16, 2>>, <<16, 3>>, <<16, 4>>, <<16, 5>>, <<16, 6>>,
      <<18, 2>>, <<19, 2>>, <<18, 3>>, <<18, 4>>, <<19, 4>>, <<19, 5>>,
      <<18, 6>>, <<19, 6>> }

\* the fill bar: columns x+1 .. x+end-1, rows y+1 .. y+8
GaugeFillCells(x, y, end) ==
    { <<i, j>> : i \in (x + 1) .. (x + end - 1), j \in (y + 1) .. (y + 8) }

\* the X drawn over a dead gauge
GaugeCrossCells(x, y) ==
    { <<x + i, y + ((i * 10) \div 30)>> : i \in 0 .. 29 }
    \cup { <<x + i, y + (((29 - i) * 10) \div 30)>> : i \in 0 .. 29 }

\* the body shared by write_timeout and write_bms_timeout: fill, cross,
\* outline, label, in the order of the code
Gauge(fb, x, y, time_since, timeout, label) ==
    LET dead == U32Ge(time_since, timeout)
        fb1  == DrawPixels(fb, GaugeFillCells(x, y, FillEnd(time_since, timeout)),
                           IF dead THEN DISPLAY_VLOW_SHADE ELSE DISPLAY_MID_SHADE)
        fb2  == IF dead
                THEN DrawPixels(fb1, GaugeCrossCells(x, y), DISPLAY_MID_SHADE)
                ELSE fb1
        fb3  == DrawPixels(fb2, BoxOutlineCells(x, y, 30, 10), DISPLAY_WHITE)
    IN  DrawPixels(fb3, { <<x + c[1], y + c[2]>> : c \in label }, DISPLAY_WHITE)

VC_TIMEOUT == 300
BMS_TIMEOUT == 1000

\* write_timeout (display_write.rs:254-308)
WriteTimeout(fb, time_since) ==
    Gauge(fb, 5 * FONT_WIDTH, 3 * FONT_HEIGHT + 4, time_since, VC_TIMEOUT, VcLabel)

\* write_bms_timeout (display_write.rs:311-384)
WriteBmsTimeout(fb, time_since) ==
    Gauge(fb, 8 * FONT_WIDTH, 3 * FONT_HEIGHT + 4, time_since, BMS_TIMEOUT,
          BmsLabel)

\* write_left_signal (display_write.rs:193-213)
LeftSignalCells ==
    { <<i, j>> : i \in 5 .. 8, j \in 4 .. 8 }
    \cup UNION { { <<i, j>> : j \in (6 - i) .. (6 + i) } : i \in 0 .. 4 }

WriteLeftSignal(fb, on) ==
    DrawPixels(fb, LeftSignalCells,
               IF on THEN DISPLAY_WHITE ELSE DISPLAY_LOW_SHADE)

\* write_right_signal (display_write.rs:216-236)
WriteRightSignal(fb, on) ==
    DrawPixels(fb, { <<DISPLAY_WIDTH - 4 - c[1], c[2]>> : c \in LeftSignalCells },
               IF on THEN DISPLAY_WHITE ELSE DISPLAY_LOW_SHADE)

\* write_lock (display_write.rs:151-190), y = 3 * FONT_HEIGHT >= 5
LockCells ==
    LET x == 0
        y == 3 * FONT_HEIGHT
    IN  { <<x + i, y + d>> : i \in 0 .. (FONT_WIDTH - 1), d \in {0, 1, 8, 9} }
        \cup { <<x + d, y + i>> :
                 d \in {0, 1, FONT_WIDTH - 2, FONT_WIDTH - 1}, i \in 0 .. 7 }
        \cup { <<x + d, y - i>> :
                 d \in {2, 3, FONT_WIDTH - 4, FONT_WIDTH - 3}, i \in 0 .. 3 }
        \cup { <<x + 4 + i, y - d>> : i \in 0 .. (FONT_WIDTH - 9), d \in {4, 5} }

WriteLock(fb, engaged) ==
    DrawPixels(fb, LockCells,
               IF engaged THEN DISPLAY_WHITE ELSE DISPLAY_VLOW_SHADE)

(***************************************************************************)
(* The text-drawing primitives (draw_char, draw_string, draw_string_large) *)
(* need the font table, which is not among the sources: a call is recorded *)
(* with its arguments instead of being drawn into the framebuffer.  Where  *)
(* text and pixel widgets share cells (the Debug screen's "Reg:" line and  *)
(* the gauges) the text, drawn later, is on top.                           *)
(***************************************************************************)
Glyph(fn, x, y, fg, bg, text) ==
    [fn |-> fn, x |-> x, y |-> y, fg |-> fg, bg |-> bg, text |-> text]

\* DriveState as usize (display_write.rs:12-17)
DRIVE_NEUTRAL == 3

\* VehicleState::default() (tasks/display.rs:57-82): the fields the widgets
\* of the model are given; velocities in whole units, throttle_value in
\* tenths
DefaultVehicleState ==
    [ drive_mode           |-> DRIVE_NEUTRAL,
      left_motor_velocity  |-> 0,
      right_motor_velocity |-> 0,
      regen_enabled        |-> TRUE,
      brake_pressed        |-> FALSE,
      throttle_enabled     |-> TRUE,
      throttle_pressed     |-> FALSE,
      throttle_value       |-> 0,
      lock_on              |-> FALSE ]

DigitStr(d) ==
    CASE d = 0 -> "0" [] d = 1 -> "1" [] d = 2 -> "2" [] d = 3 -> "3"
      [] d = 4 -> "4" [] d = 5 -> "5" [] d = 6 -> "6" [] d = 7 -> "7"
      [] d = 8 -> "8" [] d = 9 -> "9"

\* write!(buf, "{:2.0}", v) for a whole v in 0 .. 99: right-aligned, width 2
Format20(v) ==
    IF v < 10 THEN " " \o DigitStr(v)
    ELSE DigitStr(v \div 10) \o DigitStr(v % 10)

\* f32::abs and f32::max on whole values
F32Abs(v) == IF v < 0 THEN 0 - v ELSE v
F32Max(a, b) == IF a >= b THEN a ELSE b

\* write_drive_state (display_write.rs:21-39)
WriteDriveState(drive_state) ==
    LET x == 17 * FONT_WIDTH
        y == 3 * FONT_HEIGHT
        drive_states == << "D", "R", "C", "N" >>
    IN  [ n \in 1 .. 4 |->
            Glyph("draw_char", x + (n - 1) * FONT_WIDTH, y,
                  IF n - 1 = drive_state THEN DISPLAY_BLACK
                                         ELSE DISPLAY_LOW_SHADE,
                  IF n - 1 = drive_state THEN DISPLAY_MID_SHADE
                                         ELSE DISPLAY_BLACK,
                  drive_states[n]) ]

\* write_speed (display_write.rs:42-52)
WriteSpeed(speed) ==
    << Glyph("draw_string_large", 5 * FONT_WIDTH, 0 * FONT_HEIGHT,
             DISPLAY_WHITE, DISPLAY_BLACK, Format20(F32Abs(speed))) >>

\* max_velocity of the Main screen arm (tasks/display.rs:124)
MaxVelocity(vs) == F32Max(vs.left_motor_velocity, vs.right_motor_velocity)

\* write_cruise_speed (display_write.rs:55-71) with cruise_speed 0.0
WriteCruiseSpeed(engaged) ==
    << Glyph("draw_string", 14 * FONT_WIDTH, 3 * FONT_HEIGHT,
             IF engaged THEN DISPLAY_WHITE ELSE DISPLAY_LOW_SHADE,
             DISPLAY_BLACK, Format20(F32Abs(0))) >>

\* faulty variant of IndicatorShade: an idle function is drawn like a
\* disabled one
IndicatorShadeTwoWay(enabled, engaged) ==
    IF enabled /\ engaged THEN DISPLAY_WHITE ELSE DISPLAY_VLOW_SHADE

\* the shade of write_regen and write_throttle (display_write.rs:113-119,
\* 134-140)
IndicatorShade(enabled, engaged) ==
    IF ~enabled THEN DISPLAY_VLOW_SHADE
    ELSE IF engaged THEN DISPLAY_WHITE
    ELSE DISPLAY_MID_SHADE

\* write_regen (display_write.rs:109-127): the glyph
WriteRegen(enabled, engaged) ==
    << Glyph("draw_char", 0 * FONT_WIDTH, 1 * FONT_HEIGHT,
             IndicatorShade(enabled, engaged), DISPLAY_BLACK, "R") >>

\* write_regen: the hardware bit indicator pixel
WriteRegenBit(fb, hwbit) ==
    LET x == 0 * FONT_WIDTH
        y == 1 * FONT_HEIGHT
    IN  IF y > 0
        THEN DrawPixels(fb, { <<x + 1, y - 1>> },
                        IF hwbit THEN DISPLAY_WHITE ELSE DISPLAY_BLACK)
        ELSE fb

\* write_throttle (display_write.rs:130-148): the glyph
WriteThrottle(enabled, engaged) ==
    << Glyph("draw_char", 1 * FONT_WIDTH, 1 * FONT_HEIGHT,
             IndicatorShade(enabled, engaged), DISPLAY_BLACK, "T") >>

\* write_throttle: the hardware bit indicator pixel
WriteThrottleBit(fb, hwbit) ==
    LET x == 1 * FONT_WIDTH
        y == 1 * FONT_HEIGHT
    IN  IF x > 0 /\ y > 0
        THEN DrawPixels(fb, { <<x - 1, y - 1>> },
                        IF hwbit THEN DISPLAY_WHITE ELSE DISPLAY_BLACK)
        ELSE fb

\* write_current, write_high_voltage, write_low_voltage
\* (display_write.rs:74-106) with the values of VehicleState::default():
\* "{:5.1}A" of 0.0, "{:5.1}v" of 120.0 and of 12.5
WriteElectrical ==
    << Glyph("draw_string", 13 * FONT_WIDTH, 0 * FONT_HEIGHT, DISPLAY_WHITE,
             DISPLAY_BLACK, "  0.0A"),
       Glyph("draw_string", 13 * FONT_WIDTH, 1 * FONT_HEIGHT, DISPLAY_WHITE,
             DISPLAY_BLACK, "120.0v"),
       Glyph("draw_string", 13 * FONT_WIDTH, 2 * FONT_HEIGHT, DISPLAY_WHITE,
             DISPLAY_BLACK, " 12.5v") >>

\* throttle_value > 0.2 (tasks/display.rs:139, 145), throttle_value in tenths
HwBit(vs) == vs.throttle_value > 2

\* the text calls of the Main screen arm up to write_speed
\* (tasks/display.rs:122-125)
MainGlyphsHead(vs) ==
    WriteDriveState(vs.drive_mode) \o WriteSpeed(MaxVelocity(vs))

\* the text calls of the Main screen arm (tasks/display.rs:122-150)
MainGlyphs(vs) ==
    MainGlyphsHead(vs)
    \o WriteCruiseSpeed(FALSE)
    \o WriteRegen(vs.regen_enabled, vs.brake_pressed)
    \o WriteThrottle(vs.throttle_enabled, vs.throttle_pressed)
    \o WriteElectrical

\* the text calls of the Debug screen arm (tasks/display.rs:168-172,
\* display_write.rs:408-457) with the values of VehicleState::default()
DebugGlyphs ==
    << Glyph("draw_string", 1 * FONT_WIDTH, 2 * FONT_HEIGHT, DISPLAY_WHITE,
             DISPLAY_BLACK, "Thr:0.000"),
       Glyph("draw_string", 10 * FONT_WIDTH, 2 * FONT_HEIGHT, DISPLAY_WHITE,
             DISPLAY_BLACK, "RAW:0"),
       Glyph("draw_string", 1 * FONT_WIDTH, 3 * FONT_HEIGHT, DISPLAY_WHITE,
             DISPLAY_BLACK, "Reg:0.000"),
       Glyph("draw_string", 10 * FONT_WIDTH, 3 * FONT_HEIGHT, DISPLAY_WHITE,
             DISPLAY_BLACK, "RAW:0"),
       Glyph("draw_string", 8 * FONT_WIDTH, 0 * FONT_HEIGHT, DISPLAY_WHITE,
             DISPLAY_BLACK, "Ped:  0.0"),
       Glyph("draw_string", 4 * FONT_WIDTH, 1 * FONT_HEIGHT, DISPLAY_WHITE,
             DISPLAY_BLACK, "RAW Ped:    0"),
       Glyph("draw_string", 0 * FONT_WIDTH, 0 * FONT_HEIGHT, DISPLAY_WHITE,
             DISPLAY_BLACK, "Debug") >>

\* faulty variant of BlinkDue: the phases flip from 500 ms on
BlinkDueAt500(last, now) == U32Ge(U32WrappingSub(now, last), 500)

\* current_time - *last_blink > 500 (display_write.rs:241), the subtraction
\* taken modulo 2^32
BlinkDue(last, now) == U32Gt(U32WrappingSub(now, last), 500)

\* write_turn_signal_state (display_write.rs:239-251): the pixels; both
\* arrows are drawn with `false`
WriteTurnSignalState(fb) == WriteRightSignal(WriteLeftSignal(fb, FALSE), FALSE)

\* the pixel calls of the Main screen arm (tasks/display.rs:120-162)
MainScreenOf(fb, vs, vc, bms) ==
    WriteBmsTimeout(
      WriteTimeout(
        WriteLock(
          WriteThrottleBit(WriteRegenBit(WriteTurnSignalState(fb), HwBit(vs)),
                           HwBit(vs)),
          vs.lock_on),
        vc),
      bms)

\* the Main screen arm (tasks/display.rs:120-162) with the placeholder
\* vehicle state (lock_on = false, both signals drawn off)
MainScreen(fb, vc, bms) == MainScreenOf(fb, DefaultVehicleState, vc, bms)

\* the Debug screen arm (tasks/display.rs:163-173)
DebugScreen(fb, vc, bms) == WriteBmsTimeout(WriteTimeout(fb, vc), bms)

\* ---- the routines as instruction lists; `by` names the routine a transfer
\* ---- belongs to, `ret` the routine that returns after the instruction
Ins(op, arg, by, ret) == [op |-> op, arg |-> arg, by |-> by, ret |-> ret]

\* faulty variant of SendCommand: the command/data line is left as it was
SendCommandKeepDc(cmd) ==
    << Ins("cs", 0, "send_command", ""),
       Ins("write", <<cmd>>, "send_command", ""),
       Ins("cs", 1, "send_command", "send_command") >>

\* send_command (ssd1322.rs:143-148)
SendCommand(cmd) ==
    << Ins("dc", 0, "send_command", ""),
       Ins("cs", 0, "send_command", ""),
       Ins("write", <<cmd>>, "send_command", ""),
       Ins("cs", 1, "send_command", "send_command") >>

\* send_data (ssd1322.rs:150-155)
SendData(data) ==
    << Ins("dc", 1, "send_data", ""),
       Ins("cs", 0, "send_data", ""),
       Ins("write", data, "send_data", ""),
       Ins("cs", 1, "send_data", "send_data") >>

\* faulty variant of InitProgram: the panel is switched on before the
\* display mode is set, without the settle delay
InitProgramOnEarly ==
    << Ins("cs", 1, "init", ""), Ins("rst", 0, "init", ""),
       Ins("delay", 1, "init", ""),
       Ins("rst", 1, "init", ""), Ins("dc", 1, "init", ""),
       Ins("delay", 10, "init", "") >>
    \o SendCommand(253) \o SendData(<<18>>)
    \o SendCommand(174)
    \o SendCommand(179) \o SendData(<<145>>)
    \o SendCommand(202) \o SendData(<<63>>)
    \o SendCommand(162) \o SendData(<<0>>)
    \o SendCommand(161) \o SendData(<<0>>)
    \o SendCommand(160) \o SendData(<<20, 17>>)
    \o SendCommand(181) \o SendData(<<0>>)
    \o SendCommand(171) \o SendData(<<1>>)
    \o SendCommand(178) \o SendData(<<160, 253>>)
    \o SendCommand(193) \o SendData(<<255>>)
    \o SendCommand(199) \o SendData(<<15>>)
    \o SendCommand(185)
    \o SendCommand(177) \o SendData(<<226>>)
    \o SendCommand(209) \o SendData(<<130, 32>>)
    \o SendCommand(187) \o SendData(<<31>>)
    \o SendCommand(182) \o SendData(<<8>>)
    \o SendCommand(190) \o SendData(<<7>>)
    \o SendCommand(175)
    \o SendCommand(166)
    \o SendCommand(169)
    \o << Ins("delay", 10, "init", "") >>
    \o << Ins("delay", 50, "init", "init") >>

\* init (ssd1322.rs:70-141)
InitProgram ==
    << Ins("cs", 1, "init", ""), Ins("rst", 0, "init", ""),
       Ins("delay", 1, "init", ""),
       Ins("rst", 1, "init", ""), Ins("dc", 1, "init", ""),
       Ins("delay", 10, "init", "") >>
    \o SendCommand(253) \o SendData(<<18>>)          \* 0xFD, 0x12
    \o SendCommand(174)                              \* 0xAE
    \o SendCommand(179) \o SendData(<<145>>)         \* 0xB3, 0x91
    \o SendCommand(202) \o SendData(<<63>>)          \* 0xCA, 0x3F
    \o SendCommand(162) \o SendData(<<0>>)           \* 0xA2
    \o SendCommand(161) \o SendData(<<0>>)           \* 0xA1
    \o SendCommand(160) \o SendData(<<20, 17>>)      \* 0xA0, 0x14 0x11
    \o SendCommand(181) \o SendData(<<0>>)           \* 0xB5
    \o SendCommand(171) \o SendData(<<1>>)           \* 0xAB
    \o SendCommand(178) \o SendData(<<160, 253>>)    \* 0xB2, 0xA0 0xFD
    \o SendCommand(193) \o SendData(<<255>>)         \* 0xC1
    \o SendCommand(199) \o SendData(<<15>>)          \* 0xC7
    \o SendCommand(185)                              \* 0xB9
    \o SendCommand(177) \o SendData(<<226>>)         \* 0xB1, 0xE2
    \o SendCommand(209) \o SendData(<<130, 32>>)     \* 0xD1, 0x82 0x20
    \o SendCommand(187) \o SendData(<<31>>)          \* 0xBB, 0x1F
    \o SendCommand(182) \o SendData(<<8>>)           \* 0xB6
    \o SendCommand(190) \o SendData(<<7>>)           \* 0xBE
    \o SendCommand(166)                              \* 0xA6
    \o SendCommand(169)                              \* 0xA9
    \o << Ins("delay", 10, "init", "") >>
    \o SendCommand(175)                              \* 0xAF
    \o << Ins("delay", 50, "init", "init") >>

\* faulty variant of FlushProgram: the row window is sent before the column window
FlushProgramRowFirst ==
    SendCommand(CMD_SET_ROW_ADDR) \o SendData(<<0, 63>>)
    \o SendCommand(CMD_SET_COLUMN_ADDR) \o SendData(<<MIN_SEG, MAX_SEG>>)
    \o SendCommand(CMD_WRITE_RAM)
    \o << Ins("dc", 1, "flush", ""), Ins("cs", 0, "flush", ""),
          Ins("stream", 0, "flush", ""),
          Ins("cs", 1, "flush", "flush") >>

\* flush (ssd1322.rs:161-195)
FlushProgram ==
    SendCommand(CMD_SET_COLUMN_ADDR) \o SendData(<<MIN_SEG, MAX_SEG>>)
    \o SendCommand(CMD_SET_ROW_ADDR) \o SendData(<<0, 63>>)
    \o SendCommand(CMD_WRITE_RAM)
    \o << Ins("dc", 1, "flush", ""), Ins("cs", 0, "flush", ""),
          Ins("stream", 0, "flush", ""),
          Ins("cs", 1, "flush", "flush") >>

Program == IF prog = "init" THEN InitProgram
           ELSE IF prog = "flush" THEN FlushProgram
           ELSE <<>>

Running == prog \in {"init", "flush"} /\ ip <= Len(Program)
CurIns == Program[ip]

\* what the bus carries, with the control lines as they are at that moment
BusEntry(op, by, bytes) ==
    [call |-> prog, op |-> op, by |-> by, dc |-> dc, cs |-> cs, rst |-> rst,
     bytes |-> Bytes(bytes)]

\* move past the current instruction; the routine on top returns after its last
Advance ==
    /\ ip' = ip + 1
    /\ returned' = CurIns.ret
    /\ prog' = IF ip = Len(Program) THEN "none" ELSE prog

\* dc.set_low/high, cs.set_low/high, rst.set_low/high
SetPin ==
    /\ Running /\ ~xfer
    /\ CurIns.op \in {"dc", "cs", "rst"}
    /\ dc' = IF CurIns.op = "dc" THEN CurIns.arg ELSE dc
    /\ cs' = IF CurIns.op = "cs" THEN CurIns.arg ELSE cs
    /\ rst' = IF CurIns.op = "rst" THEN CurIns.arg ELSE rst
    /\ Advance
    /\ UNCHANGED <<framebuffer, spi_ok, xfer, chunk_start, packed_chunk,
                   idx_fault, draws, bus, failed>>

\* Timer::after_millis(n).await
Delay ==
    /\ Running /\ ~xfer
    /\ CurIns.op = "delay"
    /\ bus' = Append(bus, BusEntry("delay", CurIns.by, <<CurIns.arg>>))
    /\ Advance
    /\ UNCHANGED <<framebuffer, dc, cs, rst, spi_ok, xfer, chunk_start,
                   packed_chunk, idx_fault, draws, failed>>

\* self.spi.write(..) of send_command / send_data: the transfer starts
WriteBegin ==
    /\ Running /\ ~xfer
    /\ CurIns.op = "write"
    /\ bus' = Append(bus, BusEntry("write", CurIns.by, CurIns.arg))
    /\ xfer' = TRUE
    /\ returned' = ""
    /\ UNCHANGED <<framebuffer, dc, cs, rst, spi_ok, prog, ip, chunk_start,
                   packed_chunk, idx_fault, draws, failed>>

\* .await.ok(): the transfer ends, its result is dropped
WriteEnd ==
    /\ Running /\ xfer
    /\ CurIns.op = "write"
    /\ \E ok \in BOOLEAN : spi_ok' = ok /\ failed' = (failed \/ ~ok)
    /\ xfer' = FALSE
    /\ Advance
    /\ UNCHANGED <<framebuffer, dc, cs, rst, chunk_start, packed_chunk,
                   idx_fault, draws, bus>>

\* one iteration of the chunk loop of flush up to its spi.write
\* (ssd1322.rs:182-191)
ChunkBegin ==
    /\ Running /\ ~xfer
    /\ CurIns.op = "stream"
    /\ chunk_start < DISPLAY_BUFFER_SIZE
    /\ IF PackFault(chunk_start)
       THEN /\ idx_fault' = TRUE
            /\ prog' = "panic"
            /\ UNCHANGED <<packed_chunk, bus, xfer>>
       ELSE /\ packed_chunk' = PackChunk(framebuffer, packed_chunk, chunk_start)
            /\ bus' = Append(bus, BusEntry("write", "flush",
                         SubSeq(packed_chunk', 1, ChunkLen(chunk_start) \div 2)))
            /\ xfer' = TRUE
            /\ UNCHANGED <<idx_fault, prog>>
    /\ returned' = ""
    /\ UNCHANGED <<framebuffer, dc, cs, rst, spi_ok, ip, chunk_start, draws,
                   failed>>

\* faulty variant of ChunkDone: a failed transfer ends the chunk loop
ChunkDoneBreak ==
    /\ Running /\ xfer
    /\ CurIns.op = "stream"
    /\ \E ok \in BOOLEAN :
          /\ spi_ok' = ok /\ failed' = (failed \/ ~ok)
          /\ IF chunk_start + CHUNK_SIZE >= DISPLAY_BUFFER_SIZE \/ ~ok
             THEN Advance
             ELSE UNCHANGED <<ip, prog>> /\ returned' = ""
    /\ xfer' = FALSE
    /\ chunk_start' = chunk_start + CHUNK_SIZE
    /\ UNCHANGED <<framebuffer, dc, cs, rst, packed_chunk, idx_fault, draws,
                   bus>>

\* the chunk's transfer ends; the loop goes on or is left
ChunkDone ==
    /\ Running /\ xfer
    /\ CurIns.op = "stream"
    /\ \E ok \in BOOLEAN : spi_ok' = ok /\ failed' = (failed \/ ~ok)
    /\ xfer' = FALSE
    /\ chunk_start' = chunk_start + CHUNK_SIZE
    /\ IF chunk_start + CHUNK_SIZE >= DISPLAY_BUFFER_SIZE
       THEN Advance
       ELSE UNCHANGED <<ip, prog>> /\ returned' = ""
    /\ UNCHANGED <<framebuffer, dc, cs, rst, packed_chunk, idx_fault, draws,
                   bus>>

\* display.flush() is called
FlushCall ==
    /\ prog = "none"
    /\ prog' = "flush"
    /\ ip' = 1
    /\ chunk_start' = 0
    /\ packed_chunk' = [j \in 1 .. (CHUNK_SIZE \div 2) |-> 0]
    /\ bus' = <<>>
    /\ returned' = ""
    /\ UNCHANGED <<framebuffer, dc, cs, rst, spi_ok, xfer, idx_fault, draws,
                   failed>>

\* faulty variant of Clear: the last cell is left as it is
ClearButLast ==
    /\ prog = "none"
    /\ draws > 0
    /\ framebuffer' = [k \in (DOMAIN framebuffer) \cap {DISPLAY_BUFFER_SIZE - 1}
                          |-> framebuffer[k]]
    /\ draws' = 0
    /\ returned' = ""
    /\ UNCHANGED <<dc, cs, rst, spi_ok, prog, ip, xfer, chunk_start,
                   packed_chunk, idx_fault, bus, failed>>

\* clear (ssd1322.rs:157-159)
Clear ==
    /\ prog = "none"
    /\ draws > 0
    /\ framebuffer' = ZeroFb
    /\ draws' = 0
    /\ returned' = ""
    /\ UNCHANGED <<dc, cs, rst, spi_ok, prog, ip, xfer, chunk_start,
                   packed_chunk, idx_fault, bus, failed>>

\* the pixels the model draws: the two pixels of the first and of the last
\* transmitted byte, and coordinates just outside the panel on each side
DrawCoords ==
    { <<0, 0>>, <<1, 0>>,
      <<DISPLAY_WIDTH - 2, DISPLAY_HEIGHT - 1>>,
      <<DISPLAY_WIDTH - 1, DISPLAY_HEIGHT - 1>>,
      <<-1, 0>>, <<DISPLAY_WIDTH, 0>>, <<0, -1>>,
      <<DISPLAY_WIDTH - 1, DISPLAY_HEIGHT>> }
DrawLumas == {5, 15}

\* draw_iter with one pixel
Draw ==
    /\ prog = "none"
    /\ draws < MaxDraws
    /\ \E c \in DrawCoords, luma \in DrawLumas :
          framebuffer' = DrawPixel(framebuffer, c[1], c[2], luma)
    /\ draws' = draws + 1
    /\ returned' = ""
    /\ UNCHANGED <<dc, cs, rst, spi_ok, prog, ip, xfer, chunk_start,
                   packed_chunk, idx_fault, bus, failed>>

\* the display task has not constructed the display yet
InitDisplayOff ==
    /\ framebuffer = ZeroFb
    /\ dc = 1 /\ cs = 1 /\ rst = 1
    /\ spi_ok = TRUE
    /\ prog = "off"
    /\ ip = 1
    /\ xfer = FALSE
    /\ chunk_start = 0
    /\ packed_chunk = <<>>
    /\ idx_fault = FALSE
    /\ returned = ""
    /\ draws = 0
    /\ bus = <<>>
    /\ failed = FALSE

\* Ssd1322Display::new up to its call of init (ssd1322.rs:58-66), with the
\* control lines as main.rs:132-134 creates them
InitDisplayNew ==
    /\ framebuffer = ZeroFb
    /\ dc = 1 /\ cs = 1 /\ rst = 1
    /\ spi_ok = TRUE
    /\ prog = "init"
    /\ ip = 1
    /\ xfer = FALSE
    /\ chunk_start = 0
    /\ packed_chunk = <<>>
    /\ idx_fault = FALSE
    /\ returned = ""
    /\ draws = 0
    /\ bus = <<>>
    /\ failed = FALSE

(***************************************************************************)
(* One poll of button_task (tasks/buttons.rs:13-41): update, then the      *)
(* events are consumed (logged) and the task sleeps.                       *)
(***************************************************************************)
Poll(raw) ==
    LET st == Update(CurrentButtonState, raw) IN
    /\ states' = st.states
    /\ raw_states' = st.raw_states
    /\ debounce_counters' = st.debounce_counters
    /\ toggle_states' = st.toggle_states
    /\ events' = st.events
    /\ push_failed' = (push_failed \/ st.push_failed)
    /\ sample' = raw
    /\ run' = NextRun(raw)
    /\ UNCHANGED dispVars

InitButtons ==
    /\ states = NewButtonState.states
    /\ raw_states = NewButtonState.raw_states
    /\ debounce_counters = NewButtonState.debounce_counters
    /\ toggle_states = NewButtonState.toggle_states
    /\ events = <<>>
    /\ push_failed = FALSE
    /\ sample = [i \in Buttons |-> FALSE]
    /\ run = [i \in Buttons |-> 0]

InitScriptOff ==
    /\ mode = "free"
    /\ target = 0
    /\ pollNo = 0
    /\ evlog = <<>>

\* DisplayState::new() and VehicleState::default() (tasks/display.rs:20-31,
\* 57-82), the time source at start_time (:102), nothing drawn or flushed
InitUi ==
    /\ left_blink = FALSE
    /\ right_blink = FALSE
    /\ last_blink = U32Zero
    /\ current_time = U32Zero
    /\ clock = U32Zero
    /\ vehicle_state = DefaultVehicleState
    /\ elapsed = 0
    /\ flip_at = 0
    /\ flips = 0
    /\ glyphs = <<>>
    /\ flushes = 0

\* the tasks are not followed: polls and driver calls come in any order
InitLoopOff ==
    /\ InitUi
    /\ dpc = "free"
    /\ bpc = "update"
    /\ current_screen = 0
    /\ time_since_vc = U32Zero
    /\ time_since_bms = U32Zero
    /\ cycles = 0

Init ==
    /\ InitButtons
    /\ InitScriptOff
    /\ InitDisplayOff
    /\ InitLoopOff

PollAny ==
    /\ \E raw \in Samples : Poll(raw)
    /\ UNCHANGED <<scriptVars, loopVars, uiVars>>

Next == PollAny

Spec == Init /\ [][Next]_vars

(***************************************************************************)
(* Scenario: a freshly constructed ButtonState, one Regular button fed     *)
(* raw = true for ScriptRun polls, then raw = false for ScriptRun polls.   *)
(* The other buttons are all released or all pressed, poll by poll.        *)
(***************************************************************************)
InitPress ==
    /\ InitButtons
    /\ mode = "script"
    /\ target \in { i \in Buttons : ~IsToggleId(ButtonIdOf(i)) }
    /\ pollNo = 0
    /\ evlog = <<>>
    /\ InitDisplayOff
    /\ InitLoopOff

ScriptPoll(raw) ==
    /\ Poll(raw)
    /\ pollNo' = pollNo + 1
    /\ evlog' = Append(evlog, EventsOf(events', ButtonIdOf(target)))
    /\ UNCHANGED <<mode, target, loopVars, uiVars>>

PressStep ==
    /\ mode = "script"
    /\ pollNo < 2 * ScriptRun
    /\ \E others \in BOOLEAN :
          ScriptPoll([i \in Buttons |->
                        IF i = target THEN pollNo < ScriptRun ELSE others])

NextPress == PressStep

SpecPress == InitPress /\ [][NextPress]_vars

(***************************************************************************)
(* Scenario: after any run of polls, a Toggle button whose persisted value *)
(* is false is fed THRESHOLD released samples and then pressed samples.    *)
(* mode records whether the debounced state was released ("script") or     *)
(* pressed ("script_held") when the scripted samples began.                *)
(***************************************************************************)
InitToggle ==
    /\ InitButtons
    /\ mode = "free"
    /\ target \in { i \in Buttons : IsToggleId(ButtonIdOf(i)) }
    /\ pollNo = 0
    /\ evlog = <<>>
    /\ InitDisplayOff
    /\ InitLoopOff

FreePoll ==
    /\ mode = "free"
    /\ \E raw \in Samples : Poll(raw)
    /\ UNCHANGED <<scriptVars, loopVars, uiVars>>

StartToggleScript ==
    /\ mode = "free"
    /\ ~toggle_states[ToggleIdxOf(ButtonIdOf(target))]
    /\ mode' = IF states[target] THEN "script_held" ELSE "script"
    /\ UNCHANGED <<btnVars, target, pollNo, evlog, dispVars, loopVars, uiVars>>

ToggleStep ==
    /\ mode \in {"script", "script_held"}
    /\ pollNo < 2 * THRESHOLD + 1
    /\ ScriptPoll([i \in Buttons |->
                     IF i = target THEN pollNo >= THRESHOLD ELSE FALSE])

NextToggle == FreePoll \/ StartToggleScript \/ ToggleStep

SpecToggle == InitToggle /\ [][NextToggle]_vars

(***************************************************************************)
(* The display task: construction (init), then clear / draw / flush calls. *)
(***************************************************************************)
InitDisplay ==
    /\ InitButtons
    /\ InitScriptOff
    /\ InitDisplayNew
    /\ InitLoopOff

NextDisplay ==
    /\ \/ SetPin \/ Delay \/ WriteBegin \/ WriteEnd
       \/ ChunkBegin \/ ChunkDone \/ FlushCall \/ Clear \/ Draw
    /\ UNCHANGED <<btnVars, scriptVars, loopVars, uiVars>>

SpecDisplay == InitDisplay /\ [][NextDisplay]_vars

(***************************************************************************)
(* The two tasks on the executor that main.rs:137-139 spawns them on.      *)
(* A task runs until its next .await; the other task runs only while the   *)
(* first is suspended there.  A panic (panic_probe, main.rs:15) halts the  *)
(* core, hence both tasks.                                                 *)
(***************************************************************************)
\* the samples the pins deliver while both tasks run: LeftTurn is released,
\* then pressed and held
TaskSamples ==
    { raw \in { [i \in Buttons |-> i \in P] : P \in { {}, {7} } } :
        sample[7] => raw[7] }

\* display_task is suspended at an .await: a bus transfer, a timer of init,
\* the timer after new (tasks/display.rs:95) or after flush (:184)
DisplaySuspended ==
    \/ xfer
    \/ (Running /\ CurIns.op = "delay")
    \/ (dpc \in {"new", "flush"} /\ prog = "none")

Halted == dpc = "panic" \/ prog = "panic"

\* faulty variant of ButtonUpdate: the new state is stored in this step, the
\* event list is handed over later
ButtonUpdateStateFirst ==
    /\ bpc = "update"
    /\ ~Halted
    /\ DisplaySuspended
    /\ \E raw \in TaskSamples :
          LET st == Update(CurrentButtonState, raw) IN
          /\ states' = st.states
          /\ raw_states' = st.raw_states
          /\ debounce_counters' = st.debounce_counters
          /\ toggle_states' = st.toggle_states
          /\ events' = <<>>
          /\ push_failed' = (push_failed \/ st.push_failed)
          /\ sample' = raw
          /\ run' = NextRun(raw)
    /\ bpc' = "sleep"
    /\ UNCHANGED <<dispVars, scriptVars, dpc, current_screen, time_since_vc,
                   time_since_bms, cycles, uiVars>>

\* button_task: update and the handling of its events (tasks/buttons.rs:15-37)
ButtonUpdate ==
    /\ bpc = "update"
    /\ ~Halted
    /\ DisplaySuspended
    /\ \E raw \in TaskSamples : Poll(raw)
    /\ bpc' = "sleep"
    /\ UNCHANGED <<scriptVars, dpc, current_screen, time_since_vc,
                   time_since_bms, cycles, uiVars>>

\* button_task: Timer::after_millis(10) has expired (tasks/buttons.rs:40)
ButtonTimer ==
    /\ bpc = "sleep"
    /\ ~Halted
    /\ bpc' = "update"
    /\ UNCHANGED <<btnVars, scriptVars, dispVars, dpc, current_screen,
                   time_since_vc, time_since_bms, cycles, uiVars>>

\* display_task inside Ssd1322Display::new or flush: one step of the driver
DriverStep ==
    /\ dpc \in {"new", "flush"}
    /\ \/ SetPin \/ Delay \/ WriteBegin \/ WriteEnd \/ ChunkBegin \/ ChunkDone
    /\ UNCHANGED <<btnVars, scriptVars, loopVars, uiVars>>

\* new has returned and the 100 ms timer has expired: the loop's state is
\* set up (tasks/display.rs:95-104)
LoopEnter ==
    /\ dpc = "new" /\ prog = "none"
    /\ dpc' = "top"
    /\ current_screen' = 0
    /\ time_since_vc' = U32Zero
    /\ time_since_bms' = U32Zero
    /\ left_blink' = FALSE
    /\ right_blink' = FALSE
    /\ last_blink' = U32Zero
    /\ vehicle_state' = DefaultVehicleState
    /\ clock' = U32Zero
    /\ elapsed' = 0
    /\ returned' = ""
    /\ UNCHANGED <<framebuffer, dc, cs, rst, spi_ok, prog, ip, xfer,
                   chunk_start, packed_chunk, idx_fault, draws, bus, failed>>
    /\ UNCHANGED <<btnVars, scriptVars, bpc, cycles, current_time, flip_at,
                   flips, glyphs, flushes>>

\* the head of a cycle: the time source is read and both counters += 50
\* (tasks/display.rs:107-114).  An addition that does not fit u32 panics
\* where overflow checks are compiled in and wraps where they are not.
CycleBegin ==
    /\ dpc = "top"
    /\ cycles < MaxCycles
    /\ current_time' = clock
    /\ IF U32AddOverflows(time_since_vc, 50) \/ U32AddOverflows(time_since_bms, 50)
       THEN \/ /\ dpc' = "panic"
               /\ UNCHANGED <<time_since_vc, time_since_bms, cycles>>
            \/ /\ dpc' = "fill"
               /\ time_since_vc' = U32WrappingAdd(time_since_vc, 50)
               /\ time_since_bms' = U32WrappingAdd(time_since_bms, 50)
               /\ cycles' = cycles + 1
       ELSE /\ dpc' = "fill"
            /\ time_since_vc' = U32WrappingAdd(time_since_vc, 50)
            /\ time_since_bms' = U32WrappingAdd(time_since_bms, 50)
            /\ cycles' = cycles + 1
    /\ returned' = ""
    /\ UNCHANGED <<framebuffer, dc, cs, rst, spi_ok, prog, ip, xfer,
                   chunk_start, packed_chunk, idx_fault, draws, bus, failed>>
    /\ UNCHANGED <<btnVars, scriptVars, bpc, current_screen>>
    /\ UNCHANGED <<left_blink, right_blink, last_blink, clock, vehicle_state,
                   elapsed, flip_at, flips, glyphs, flushes>>

\* display.fill(DISPLAY_BLACK) (tasks/display.rs:117)
CycleFill ==
    /\ dpc = "fill"
    /\ framebuffer' = FillFb(DISPLAY_BLACK)
    /\ glyphs' = <<>>
    /\ dpc' = "match"
    /\ UNCHANGED <<dc, cs, rst, spi_ok, prog, ip, xfer, chunk_start,
                   packed_chunk, idx_fault, returned, draws, bus, failed>>
    /\ UNCHANGED <<btnVars, scriptVars, bpc, current_screen, time_since_vc,
                   time_since_bms, cycles>>
    /\ UNCHANGED <<left_blink, right_blink, last_blink, current_time, clock,
                   vehicle_state, elapsed, flip_at, flips, flushes>>

\* the arm of `match` for the value `screen` (tasks/display.rs:119-178), the
\* subtraction of write_turn_signal_state taken modulo 2^32; next_index is
\* the value the arm leaves in state.current_screen
ArmOf(screen, next_index) ==
    LET due == screen = 0 /\ BlinkDue(last_blink, current_time) IN
    /\ framebuffer' =
          IF screen = 0
          THEN MainScreenOf(framebuffer, vehicle_state, time_since_vc,
                            time_since_bms)
          ELSE IF screen = 1
          THEN DebugScreen(framebuffer, time_since_vc, time_since_bms)
          ELSE framebuffer
    /\ glyphs' =
          IF screen = 0 THEN MainGlyphs(vehicle_state)
          ELSE IF screen = 1 THEN DebugGlyphs
          ELSE glyphs
    /\ left_blink' = IF due THEN ~left_blink ELSE left_blink
    /\ right_blink' = IF due THEN ~right_blink ELSE right_blink
    /\ last_blink' = IF due THEN current_time ELSE last_blink
    /\ flip_at' = IF due THEN elapsed ELSE flip_at
    /\ flips' = IF due THEN flips + 1 ELSE flips
    /\ current_screen' = next_index
    /\ dpc' = "flush_call"
    /\ UNCHANGED <<dc, cs, rst, spi_ok, prog, ip, xfer, chunk_start,
                   packed_chunk, idx_fault, returned, draws, bus, failed>>
    /\ UNCHANGED <<btnVars, scriptVars, bpc, time_since_vc, time_since_bms,
                   cycles>>
    /\ UNCHANGED <<current_time, clock, vehicle_state, elapsed, flushes>>

\* faulty variant of ScreenArm: an unknown index is drawn as the Main screen
ScreenArmUnknownAsMain(next_index) ==
    ArmOf(IF current_screen = 1 THEN 1 ELSE 0, next_index)

\* the arm that `match state.current_screen` takes
ScreenArm(next_index) == ArmOf(current_screen, next_index)

\* `current_time - *last_blink` (display_write.rs:241) does not fit u32 and
\* overflow checks are compiled in: the task panics inside
\* write_turn_signal_state, after write_drive_state and write_speed
TurnSignalPanic ==
    /\ glyphs' = MainGlyphsHead(vehicle_state)
    /\ dpc' = "panic"
    /\ UNCHANGED <<dispVars, btnVars, scriptVars, bpc, current_screen,
                   time_since_vc, time_since_bms, cycles>>
    /\ UNCHANGED <<left_blink, right_blink, last_blink, current_time, clock,
                   vehicle_state, elapsed, flip_at, flips, flushes>>

\* faulty variant of CycleMatch: an unknown index stays as it is
CycleMatchKeepIndex ==
    /\ dpc = "match"
    /\ IF current_screen = 0 /\ U32Lt(current_time, last_blink)
       THEN TurnSignalPanic \/ ScreenArm(current_screen)
       ELSE ScreenArm(current_screen)

\* match state.current_screen (tasks/display.rs:119-178)
CycleMatch ==
    /\ dpc = "match"
    /\ IF current_screen = 0 /\ U32Lt(current_time, last_blink)
       THEN TurnSignalPanic
            \/ ScreenArm(IF current_screen \in {0, 1} THEN current_screen ELSE 0)
       ELSE ScreenArm(IF current_screen \in {0, 1} THEN current_screen ELSE 0)

\* faulty variant of CycleFlush: the framebuffer is cleared for the next
\* frame as soon as the flush has been started
CycleFlushClearsEarly ==
    /\ dpc = "flush_call"
    /\ prog = "none"
    /\ prog' = "flush"
    /\ ip' = 1
    /\ chunk_start' = 0
    /\ packed_chunk' = [j \in 1 .. (CHUNK_SIZE \div 2) |-> 0]
    /\ bus' = <<>>
    /\ returned' = ""
    /\ framebuffer' = ZeroFb
    /\ dpc' = "flush"
    /\ flushes' = flushes + 1
    /\ UNCHANGED <<dc, cs, rst, spi_ok, xfer, idx_fault, draws, failed>>
    /\ UNCHANGED <<btnVars, scriptVars, bpc, current_screen, time_since_vc,
                   time_since_bms, cycles>>
    /\ UNCHANGED <<left_blink, right_blink, last_blink, current_time, clock,
                   vehicle_state, elapsed, flip_at, flips, glyphs>>

\* display.flush() is called (tasks/display.rs:181)
CycleFlush ==
    /\ dpc = "flush_call"
    /\ FlushCall
    /\ dpc' = "flush"
    /\ flushes' = flushes + 1
    /\ UNCHANGED <<btnVars, scriptVars, bpc, current_screen, time_since_vc,
                   time_since_bms, cycles>>
    /\ UNCHANGED <<left_blink, right_blink, last_blink, current_time, clock,
                   vehicle_state, elapsed, flip_at, flips, glyphs>>

\* faulty variant of CycleEndAfter: the frame is flushed once more before the
\* next cycle
CycleEndReflush(d) ==
    /\ dpc = "flush" /\ prog = "none"
    /\ dpc' = IF flushes = cycles THEN "flush_call" ELSE "top"
    /\ clock' = U32WrappingAdd(clock, d)
    /\ elapsed' = elapsed + d
    /\ returned' = ""
    /\ UNCHANGED <<framebuffer, dc, cs, rst, spi_ok, prog, ip, xfer,
                   chunk_start, packed_chunk, idx_fault, draws, bus, failed>>
    /\ UNCHANGED <<btnVars, scriptVars, bpc, current_screen, time_since_vc,
                   time_since_bms, cycles>>
    /\ UNCHANGED <<left_blink, right_blink, last_blink, current_time,
                   vehicle_state, flip_at, flips, glyphs, flushes>>

\* flush has returned and the 10 ms timer has expired (tasks/display.rs:184):
\* the time source has advanced by d ms since the cycle began
CycleEndAfter(d) ==
    /\ dpc = "flush" /\ prog = "none"
    /\ dpc' = "top"
    /\ clock' = U32WrappingAdd(clock, d)
    /\ elapsed' = elapsed + d
    /\ returned' = ""
    /\ UNCHANGED <<framebuffer, dc, cs, rst, spi_ok, prog, ip, xfer,
                   chunk_start, packed_chunk, idx_fault, draws, bus, failed>>
    /\ UNCHANGED <<btnVars, scriptVars, bpc, current_screen, time_since_vc,
                   time_since_bms, cycles>>
    /\ UNCHANGED <<left_blink, right_blink, last_blink, current_time,
                   vehicle_state, flip_at, flips, glyphs, flushes>>

\* a cycle of the steady render loop
CycleEnd == CycleEndAfter(CyclePeriod)

\* durations of a cycle (ms) on either side of the blink period
ClockSteps == {60, 500, 501}

\* a cycle of any of the durations of ClockSteps
CycleEndAny == \E d \in ClockSteps : CycleEndAfter(d)

\* display_task enters Ssd1322Display::new; button_task is about to poll
InitTasksFresh ==
    /\ InitButtons
    /\ InitScriptOff
    /\ InitDisplayNew
    /\ dpc = "new"
    /\ bpc = "update"
    /\ current_screen = 0
    /\ time_since_vc = U32Zero
    /\ time_since_bms = U32Zero
    /\ cycles = 0
    /\ InitUi

\* 50 * 85899345 = 2^32 - 46: the counters after 85,899,345 cycles
LateCount == U32(U32_HALF - 1, U32_HALF - 46)

\* In the last of these cycles, each taking 50 ms ("~20Hz (50ms period)",
\* tasks/display.rs:183), the time source read 2^32 - 96.  At 50 ms per
\* cycle the phases flip every 11th cycle, at the multiples of 550, of which
\* 550 * 7809031 = 2^32 - 246 is the last one up to that reading; 7809031
\* is odd, so both phases are on.
\* the top of the loop after 85,899,345 cycles of 50 ms in which no button
\* was touched: the last frame (both gauges dead) is in the framebuffer,
\* the time source stands at 2^32 - 46, 200 ms after the last flip
InitTasksLate ==
    /\ InitButtons
    /\ InitScriptOff
    /\ framebuffer = MainScreen(ZeroFb, LateCount, LateCount)
    /\ dc = 1 /\ cs = 1 /\ rst = 1
    /\ spi_ok = TRUE
    /\ prog = "none"
    /\ ip = 1
    /\ xfer = FALSE
    /\ chunk_start = 0
    /\ packed_chunk = <<>>
    /\ idx_fault = FALSE
    /\ returned = ""
    /\ draws = 0
    /\ bus = <<>>
    /\ failed = FALSE
    /\ dpc = "top"
    /\ bpc = "update"
    /\ current_screen = 0
    /\ time_since_vc = LateCount
    /\ time_since_bms = LateCount
    /\ cycles = 0
    /\ clock = LateCount
    /\ current_time = U32(U32_HALF - 1, U32_HALF - 96)
    /\ last_blink = U32(U32_HALF - 1, U32_HALF - 246)
    /\ left_blink = TRUE
    /\ right_blink = TRUE
    /\ vehicle_state = DefaultVehicleState
    /\ elapsed = 0
    /\ flip_at = 0 - 200
    /\ flips = 1
    /\ glyphs = MainGlyphs(DefaultVehicleState)
    /\ flushes = 0

InitTasks == InitTasksFresh \/ InitTasksLate

NextTasks ==
    \/ ButtonUpdate \/ ButtonTimer
    \/ DriverStep \/ LoopEnter
    \/ CycleBegin \/ CycleFill \/ CycleMatch \/ CycleFlush \/ CycleEnd

SpecTasks == InitTasks /\ [][NextTasks]_vars

(***************************************************************************)
(* The render loop from its top, for every kind of value the externally    *)
(* owned screen index can hold: Main, Debug, and one that names no screen. *)
(***************************************************************************)
ScreenIndexes == {0, 1, 99}

InitScreens ==
    /\ InitButtons
    /\ InitScriptOff
    /\ framebuffer = ZeroFb
    /\ dc = 1 /\ cs = 1 /\ rst = 1
    /\ spi_ok = TRUE
    /\ prog = "none"
    /\ ip = 1
    /\ xfer = FALSE
    /\ chunk_start = 0
    /\ packed_chunk = <<>>
    /\ idx_fault = FALSE
    /\ returned = ""
    /\ draws = 0
    /\ bus = <<>>
    /\ failed = FALSE
    /\ dpc = "top"
    /\ bpc = "update"
    /\ current_screen \in ScreenIndexes
    /\ time_since_vc = U32Zero
    /\ time_since_bms = U32Zero
    /\ cycles = 0
    /\ left_blink = FALSE
    /\ right_blink = FALSE
    /\ last_blink = U32Zero
    /\ current_time = U32Zero
    /\ clock = U32(0, CyclePeriod)
    /\ vehicle_state = DefaultVehicleState
    /\ elapsed = CyclePeriod
    /\ flip_at = 0
    /\ flips = 0
    /\ glyphs = <<>>
    /\ flushes = 0

NextScreens ==
    \/ ButtonUpdate \/ ButtonTimer
    \/ DriverStep
    \/ CycleBegin \/ CycleFill \/ CycleMatch \/ CycleFlush \/ CycleEnd

SpecScreens == InitScreens /\ [][NextScreens]_vars

(***************************************************************************)
(* The render loop alone, from its top, for every kind of screen index and *)
(* cycles of the durations of ClockSteps.  It starts either before the     *)
(* first flip of the blink phases, the time source 0, 500 or 501 ms after  *)
(* start_time, or after 71,582,788 cycles of 60 ms, when the time source   *)
(* (60 * 71582788 = 2^32 - 16) is about to wrap around; the reading of the *)
(* last of these cycles, 60 * 71582787 = 2^32 - 76, is 540 * 7953643, the  *)
(* 7953643rd flip of the phases at 60 ms per cycle.                        *)
(***************************************************************************)
InitRenderIdle ==
    /\ InitButtons
    /\ InitScriptOff
    /\ dc = 1 /\ cs = 1 /\ rst = 1
    /\ spi_ok = TRUE
    /\ prog = "none"
    /\ ip = 1
    /\ xfer = FALSE
    /\ chunk_start = 0
    /\ packed_chunk = <<>>
    /\ idx_fault = FALSE
    /\ returned = ""
    /\ draws = 0
    /\ bus = <<>>
    /\ failed = FALSE
    /\ dpc = "top"
    /\ bpc = "update"
    /\ current_screen \in ScreenIndexes
    /\ vehicle_state = DefaultVehicleState
    /\ cycles = 0
    /\ flushes = 0
    /\ elapsed = 0

InitRenderEarly ==
    /\ InitRenderIdle
    /\ framebuffer = ZeroFb
    /\ glyphs = <<>>
    /\ time_since_vc = U32Zero
    /\ time_since_bms = U32Zero
    /\ left_blink = FALSE
    /\ right_blink = FALSE
    /\ last_blink = U32Zero
    /\ current_time = U32Zero
    /\ \E g \in {0, 500, 501} : clock = U32(0, g)
    /\ flip_at = 0
    /\ flips = 0

\* 50 * 71582788 = 54613 * 65536 + 21832: the counters after these cycles
InitRenderWrap ==
    /\ InitRenderIdle
    /\ framebuffer = MainScreen(ZeroFb, U32(54613, 21832), U32(54613, 21832))
    /\ glyphs = MainGlyphs(DefaultVehicleState)
    /\ time_since_vc = U32(54613, 21832)
    /\ time_since_bms = U32(54613, 21832)
    /\ left_blink = TRUE
    /\ right_blink = TRUE
    /\ last_blink = U32(U32_HALF - 1, U32_HALF - 76)
    /\ current_time = U32(U32_HALF - 1, U32_HALF - 76)
    /\ clock = U32(U32_HALF - 1, U32_HALF - 16)
    /\ flip_at = 0 - 60
    /\ flips = 1

InitRender == InitRenderEarly \/ InitRenderWrap

NextRender ==
    \/ DriverStep
    \/ CycleBegin \/ CycleFill \/ CycleMatch \/ CycleFlush \/ CycleEndAny

SpecRender == InitRender /\ [][NextRender]_vars

(***************************************************************************)
(* The speed field and the three indicators as functions of the vehicle    *)
(* state: each is drawn on a cleared frame for every vehicle state of      *)
(* VehicleStates (velocities in whole units, throttle_value in tenths on   *)
(* either side of the 0.2 of tasks/display.rs:139).                        *)
(***************************************************************************)
VehicleStates ==
    { [DefaultVehicleState EXCEPT !.left_motor_velocity = l,
                                  !.right_motor_velocity = r,
                                  !.regen_enabled = f[1],
                                  !.brake_pressed = f[2],
                                  !.throttle_enabled = f[3],
                                  !.throttle_pressed = f[4],
                                  !.lock_on = f[5],
                                  !.throttle_value = t] :
        l \in (0 - VelocityRange) .. VelocityRange,
        r \in (0 - VelocityRange) .. VelocityRange, t \in {0, 2, 3},
        f \in [1 .. 5 -> BOOLEAN] }

InitWidgets ==
    /\ InitButtons
    /\ InitScriptOff
    /\ framebuffer = ZeroFb
    /\ dc = 1 /\ cs = 1 /\ rst = 1
    /\ spi_ok = TRUE
    /\ prog = "none"
    /\ ip = 1
    /\ xfer = FALSE
    /\ chunk_start = 0
    /\ packed_chunk = <<>>
    /\ idx_fault = FALSE
    /\ returned = ""
    /\ draws = 0
    /\ bus = <<>>
    /\ failed = FALSE
    /\ dpc = "widgets"
    /\ bpc = "update"
    /\ current_screen = 0
    /\ time_since_vc = U32Zero
    /\ time_since_bms = U32Zero
    /\ cycles = 0
    /\ left_blink = FALSE
    /\ right_blink = FALSE
    /\ last_blink = U32Zero
    /\ current_time = U32Zero
    /\ clock = U32Zero
    /\ vehicle_state \in VehicleStates
    /\ elapsed = 0
    /\ flip_at = 0
    /\ flips = 0
    /\ glyphs = <<>>
    /\ flushes = 0

\* max_velocity and display.write_speed (tasks/display.rs:124-125) on the
\* cleared frame
RenderSpeed ==
    /\ dpc = "widgets"
    /\ glyphs' = WriteSpeed(MaxVelocity(vehicle_state))
    /\ dpc' = "speed"
    /\ UNCHANGED <<btnVars, scriptVars, dispVars, bpc, current_screen,
                   time_since_vc, time_since_bms, cycles>>
    /\ UNCHANGED <<left_blink, right_blink, last_blink, current_time, clock,
                   vehicle_state, elapsed, flip_at, flips, flushes>>

\* display.write_regen, write_throttle and write_lock
\* (tasks/display.rs:136-146, 151) on the cleared frame
RenderIndicators ==
    /\ dpc = "widgets"
    /\ glyphs' = WriteRegen(vehicle_state.regen_enabled,
                            vehicle_state.brake_pressed)
                 \o WriteThrottle(vehicle_state.throttle_enabled,
                                  vehicle_state.throttle_pressed)
    /\ framebuffer' =
          WriteLock(WriteThrottleBit(WriteRegenBit(framebuffer,
                                                   HwBit(vehicle_state)),
                                     HwBit(vehicle_state)),
                    vehicle_state.lock_on)
    /\ dpc' = "indicators"
    /\ UNCHANGED <<dc, cs, rst, spi_ok, prog, ip, xfer, chunk_start,
                   packed_chunk, idx_fault, returned, draws, bus, failed>>
    /\ UNCHANGED <<btnVars, scriptVars, bpc, current_screen, time_since_vc,
                   time_since_bms, cycles>>
    /\ UNCHANGED <<left_blink, right_blink, last_blink, current_time, clock,
                   vehicle_state, elapsed, flip_at, flips, flushes>>

NextWidgets == RenderSpeed \/ RenderIndicators

SpecWidgets == InitWidgets /\ [][NextWidgets]_vars

(***************************************************************************)
(* The framebuffer under every way the program writes it: clear, single    *)
(* pixel writes through draw_iter, the drawing routines of the UI renderer *)
(* and, in between, flushes.  The display has been constructed.            *)
(***************************************************************************)
\* the drawing routines the model calls: the two arrows (the dim shade) and
\* a dead gauge (fill, cross, outline and label in three shades)
Routines(fb) ==
    { WriteTurnSignalState(fb),
      WriteBmsTimeout(fb, LateCount) }

\* one drawing routine of display_write.rs
DrawRoutine ==
    /\ prog = "none"
    /\ draws < MaxDraws
    /\ \E fb \in Routines(framebuffer) : framebuffer' = fb
    /\ draws' = draws + 1
    /\ returned' = ""
    /\ UNCHANGED <<dc, cs, rst, spi_ok, prog, ip, xfer, chunk_start,
                   packed_chunk, idx_fault, bus, failed>>

InitCanvas ==
    /\ InitButtons
    /\ InitScriptOff
    /\ InitLoopOff
    /\ framebuffer = ZeroFb
    /\ dc = 1 /\ cs = 1 /\ rst = 1
    /\ spi_ok = TRUE
    /\ prog = "none"
    /\ ip = 1
    /\ xfer = FALSE
    /\ chunk_start = 0
    /\ packed_chunk = <<>>
    /\ idx_fault = FALSE
    /\ returned = ""
    /\ draws = 0
    /\ bus = <<>>
    /\ failed = FALSE

NextCanvas ==
    /\ \/ SetPin \/ Delay \/ WriteBegin \/ WriteEnd
       \/ ChunkBegin \/ ChunkDone \/ FlushCall \/ Clear \/ Draw \/ DrawRoutine
    /\ UNCHANGED <<btnVars, scriptVars, loopVars, uiVars>>

SpecCanvas == InitCanvas /\ [][NextCanvas]_vars

(***************************************************************************)
(* The two liveness gauges as functions of the elapsed time: each is drawn *)
(* on a cleared framebuffer for an elapsed time taken from ElapsedValues.  *)
(***************************************************************************)
ElapsedValues ==
    { U32(0, ElapsedStep * n) : n \in 0 .. (MaxElapsed \div ElapsedStep) }
    \cup { U32(0, n) : n \in {1, 9, 11, 33, 34, 299, 301, 999, 1001} }
    \cup { U32(1, 0), LateCount }

InitGauge ==
    /\ InitButtons
    /\ InitScriptOff
    /\ framebuffer = ZeroFb
    /\ dc = 1 /\ cs = 1 /\ rst = 1
    /\ spi_ok = TRUE
    /\ prog = "none"
    /\ ip = 1
    /\ xfer = FALSE
    /\ chunk_start = 0
    /\ packed_chunk = <<>>
    /\ idx_fault = FALSE
    /\ returned = ""
    /\ draws = 0
    /\ bus = <<>>
    /\ failed = FALSE
    /\ InitUi
    /\ dpc = "gauge"
    /\ bpc = "update"
    /\ current_screen = 0
    /\ \E e \in ElapsedValues : time_since_vc = e /\ time_since_bms = e
    /\ cycles = 0

\* display.write_timeout(time_since_vc) on the cleared framebuffer
GaugeVc ==
    /\ dpc = "gauge"
    /\ framebuffer' = WriteTimeout(framebuffer, time_since_vc)
    /\ dpc' = "vc"
    /\ UNCHANGED <<dc, cs, rst, spi_ok, prog, ip, xfer, chunk_start,
                   packed_chunk, idx_fault, returned, draws, bus, failed>>
    /\ UNCHANGED <<btnVars, scriptVars, bpc, current_screen, time_since_vc,
                   time_since_bms, cycles, uiVars>>

\* display.write_bms_timeout(time_since_bms) on the cleared framebuffer
GaugeBms ==
    /\ dpc = "gauge"
    /\ framebuffer' = WriteBmsTimeout(framebuffer, time_since_bms)
    /\ dpc' = "bms"
    /\ UNCHANGED <<dc, cs, rst, spi_ok, prog, ip, xfer, chunk_start,
                   packed_chunk, idx_fault, returned, draws, bus, failed>>
    /\ UNCHANGED <<btnVars, scriptVars, bpc, current_screen, time_since_vc,
                   time_since_bms, cycles, uiVars>>

NextGauge == GaugeVc \/ GaugeBms

SpecGauge == InitGauge /\ [][NextGauge]_vars

(***************************************************************************)
(* The packing expression of flush (ssd1322.rs:188) on every pair of       *)
(* intensities a Gray4 pixel can hold: cells 0 and 1 are packed into byte  *)
(* 0 of the chunk.                                                         *)
(***************************************************************************)
Intensities == 0 .. 15

InitPack ==
    /\ InitButtons
    /\ InitScriptOff
    /\ InitLoopOff
    /\ \E a, b \in Intensities :
          framebuffer = FbSet(FbSet(ZeroFb, 0, a), 1, b)
    /\ dc = 1 /\ cs = 1 /\ rst = 1
    /\ spi_ok = TRUE
    /\ prog = "pack"
    /\ ip = 1
    /\ xfer = FALSE
    /\ chunk_start = 0
    /\ packed_chunk = <<>>
    /\ idx_fault = FALSE
    /\ returned = ""
    /\ draws = 0
    /\ bus = <<>>
    /\ failed = FALSE

\* packed_chunk[0] = (self.framebuffer[0] << 4) | self.framebuffer[1]
PackStep ==
    /\ prog = "pack"
    /\ packed_chunk' = << PackPair(framebuffer, 0) >>
    /\ prog' = "packed"
    /\ UNCHANGED <<framebuffer, dc, cs, rst, spi_ok, ip, xfer, chunk_start,
                   idx_fault, returned, draws, bus, failed>>
    /\ UNCHANGED <<btnVars, scriptVars, loopVars, uiVars>>

NextPack == PackStep

SpecPack == InitPack /\ [][NextPack]_vars

(***************************************************************************)
(* Properties of the debounce engine.                                      *)
(***************************************************************************)
RegularButtons == { i \in Buttons : ~IsToggleId(ButtonIdOf(i)) }
ToggleButtons  == { i \in Buttons : IsToggleId(ButtonIdOf(i)) }

IndexOfId(id) == CHOOSE i \in Buttons : ButtonIdOf(i) = id

\* C1: in every poll a Regular button emits exactly one Pressed when its
\* debounced state goes false->true, exactly one Released when it goes
\* true->false, nothing otherwise; and any event it emits comes at the end
\* of at least THRESHOLD consecutive polls whose sample equals the new state.
C1_RegularEdgeEvents ==
    [][ \A i \in RegularButtons :
          LET id == ButtonIdOf(i)
              ev == EventsOf(events', id)
          IN  /\ (~states[i] /\ states'[i]) => ev = << Pressed(id) >>
              /\ (states[i] /\ ~states'[i]) => ev = << Released(id) >>
              /\ (states[i] = states'[i]) => ev = <<>>
              /\ ev # <<>> => /\ run'[i] >= THRESHOLD
                              /\ sample'[i] = states'[i] ]_vars

\* a Regular button has been pressed and, in the last poll, released
C1_Witness ==
    /\ events = << Released("Horn") >>
    /\ ~states[4]
    /\ run[4] >= THRESHOLD

\* C3: a Toggle button's entry flips exactly once in a poll that confirms a
\* press, and that poll emits Toggled(id, new value); a poll that confirms a
\* release leaves the entry alone and emits nothing for the button; no other
\* poll changes the entry.
C3_ToggleOnPressOnly ==
    [][ \A i \in ToggleButtons :
          LET id == ButtonIdOf(i)
              t  == ToggleIdxOf(id)
              ev == EventsOf(events', id)
          IN  /\ (~states[i] /\ states'[i]) =>
                    /\ toggle_states'[t] = ~toggle_states[t]
                    /\ ev = << Toggled(id, toggle_states'[t]) >>
              /\ (states[i] /\ ~states'[i]) =>
                    /\ toggle_states'[t] = toggle_states[t]
                    /\ ev = <<>>
              /\ (states[i] = states'[i]) =>
                    /\ toggle_states'[t] = toggle_states[t]
                    /\ ev = <<>> ]_vars

\* LeftTurn was toggled on, released, and the last poll toggled it off
C3_Witness ==
    /\ events = << Toggled("LeftTurn", FALSE) >>
    /\ states[7]
    /\ ~toggle_states[0]

\* C5: a poll changes states[i] only if the counter reaches THRESHOLD in that
\* poll and the sample equalled the new state on every poll since the reset
\* (the resetting poll and THRESHOLD more); a poll that ends with the counter
\* below THRESHOLD, or that reads a sample different from the stored raw
\* state, leaves states[i] unchanged.
C5_StableChangesAtThreshold ==
    [][ \A i \in Buttons :
          /\ states'[i] # states[i] =>
                /\ debounce_counters'[i] = THRESHOLD
                /\ debounce_counters[i] < THRESHOLD
                /\ sample'[i] = states'[i]
                /\ raw_states'[i] = states'[i]
                /\ run'[i] > THRESHOLD
          /\ (debounce_counters'[i] < THRESHOLD \/ sample'[i] # raw_states[i])
                => states'[i] = states[i] ]_vars

\* the debounced state of Horn just changed, the counter just reached 5
C5_Witness ==
    /\ events = << Pressed("Horn") >>
    /\ debounce_counters[4] = THRESHOLD
    /\ states[4]

\* the button neither emitted, nor changed its state or toggle entry
Quiet(i) ==
    LET id == ButtonIdOf(i) IN
    /\ EventsOf(events', id) = <<>>
    /\ states'[i] = states[i]
    /\ IsToggleId(id) =>
          toggle_states'[ToggleIdxOf(id)] = toggle_states[ToggleIdxOf(id)]

\* C6: a poll that ends a run of at most THRESHOLD identical samples, or that
\* leaves the counter below THRESHOLD (bouncing), is quiet for that button;
\* and so is every poll whose sample equals the accepted state (the sample
\* stays at, or a glitch returns to, the accepted value).
C6_BounceAndHoldAreQuiet ==
    [][ \A i \in Buttons :
          /\ run'[i] <= THRESHOLD => Quiet(i)
          /\ debounce_counters'[i] < THRESHOLD => Quiet(i)
          /\ sample'[i] = states[i] => Quiet(i) ]_vars

\* Horn is accepted as pressed, a glitch has come and gone, and the counter
\* is back at THRESHOLD without any event
C6_Witness ==
    /\ states[4] /\ sample[4]
    /\ debounce_counters[4] = THRESHOLD
    /\ run[4] = THRESHOLD + 1
    /\ events = <<>>
    /\ ~states[7] /\ debounce_counters[7] = 0 /\ raw_states[7]

\* C7: a poll returns at most one event per button, hence at most
\* EVENT_CAPACITY events, no push ever fails, and the events are in ascending
\* button-index order.
C7_EventListBoundedOrdered ==
    /\ Len(events) <= EVENT_CAPACITY
    /\ ~push_failed
    /\ \A i \in Buttons : Len(EventsOf(events, ButtonIdOf(i))) <= 1
    /\ \A a, b \in 1 .. Len(events) :
          a < b => IndexOfId(events[a][2]) < IndexOfId(events[b][2])

\* all ten buttons had their press confirmed in the same poll
C7_Witness ==
    /\ Len(events) = EVENT_CAPACITY
    /\ events[1] = Pressed("CruiseDown")
    /\ events[EVENT_CAPACITY] = Toggled("Lock", TRUE)

\* the polls (1-based) of the script in which the target emitted something
EventPolls == { n \in 1 .. Len(evlog) : evlog[n] # <<>> }

\* C2 as stated: one Pressed, on the 5th poll, none other through poll
\* ScriptRun; then one Released, on the 5th poll of the released run.
C2_Original ==
    LET id == ButtonIdOf(target) IN
    /\ pollNo = ScriptRun =>
          /\ EventPolls = {THRESHOLD}
          /\ evlog[THRESHOLD] = << Pressed(id) >>
    /\ pollNo = 2 * ScriptRun =>
          /\ EventPolls = {THRESHOLD, ScriptRun + THRESHOLD}
          /\ evlog[ScriptRun + THRESHOLD] = << Released(id) >>

\* C2 (amended): from a fresh ButtonState, ScriptRun pressed polls yield
\* exactly one Pressed, emitted on the 6th poll (THRESHOLD + 1), and nothing
\* else; the following ScriptRun released polls yield exactly one Released,
\* on the 6th poll of that run.
C2_PressedOnSixthPoll ==
    LET id == ButtonIdOf(target) IN
    /\ (pollNo >= THRESHOLD + 1 /\ pollNo <= ScriptRun) =>
          /\ EventPolls = {THRESHOLD + 1}
          /\ evlog[THRESHOLD + 1] = << Pressed(id) >>
    /\ pollNo <= THRESHOLD => EventPolls = {}
    /\ (pollNo > ScriptRun /\ pollNo <= ScriptRun + THRESHOLD) =>
          EventPolls = {THRESHOLD + 1}
    /\ pollNo >= ScriptRun + THRESHOLD + 1 =>
          /\ EventPolls = {THRESHOLD + 1, ScriptRun + THRESHOLD + 1}
          /\ evlog[THRESHOLD + 1] = << Pressed(id) >>
          /\ evlog[ScriptRun + THRESHOLD + 1] = << Released(id) >>

\* both halves of the scenario have been played on a Regular button
C2_Witness ==
    /\ pollNo = 2 * ScriptRun
    /\ target \in RegularButtons
    /\ Cardinality(EventPolls) = 2
    /\ ~states[target]

\* C4 as stated: THRESHOLD released then THRESHOLD pressed samples yield
\* Toggled(id, true) exactly once within those 2 * THRESHOLD polls.
C4_Original ==
    (mode # "free" /\ pollNo = 2 * THRESHOLD) =>
        Cardinality({ n \in 1 .. (2 * THRESHOLD) :
                        evlog[n] = << Toggled(ButtonIdOf(target), TRUE) >> }) = 1

\* C4 (amended): for a Toggle button whose persisted value is false, five
\* released samples followed by five pressed samples yield no event at all;
\* when the debounced state was released at the start, the sixth pressed
\* sample yields Toggled(id, true), exactly once in those eleven polls, and
\* the persisted value is then true.
C4_ToggledOnSixthPressedSample ==
    /\ (mode # "free" /\ pollNo <= 2 * THRESHOLD) => EventPolls = {}
    /\ (mode = "script" /\ pollNo = 2 * THRESHOLD + 1) =>
          /\ EventPolls = {2 * THRESHOLD + 1}
          /\ evlog[2 * THRESHOLD + 1] = << Toggled(ButtonIdOf(target), TRUE) >>
          /\ toggle_states[ToggleIdxOf(ButtonIdOf(target))]

\* the script has been played to its end on a released Toggle button, after
\* earlier polls had already toggled it on and off again
C4_Witness ==
    /\ mode = "script"
    /\ pollNo = 2 * THRESHOLD + 1
    /\ target \in ToggleButtons
    /\ evlog[pollNo] # <<>>

(***************************************************************************)
(* Properties of the display transport.                                    *)
(***************************************************************************)
\* the pixel at (x, y)
PixelAt(x, y) == FbGet(framebuffer, x + y * 256)

\* transfer j of a flush (the 6th is the first after the write-RAM command)
\* carries 128 bytes, and its m-th byte, the k-th of the stream, holds the
\* pixels (2 * (k % 128), k \div 128) and its right neighbour
PixelTransferOK(j) ==
    /\ bus[j].bytes.len = 128
    /\ \A m \in 1 .. 128 :
          LET k == (j - 6) * 128 + (m - 1)
              x == 2 * (k % 128)
              y == k \div 128
          IN  ByteAt(bus[j].bytes, m) = 16 * PixelAt(x, y) + PixelAt(x + 1, y)

\* C8: the pixel data of a flush is 64 transfers of 128 bytes (8192 bytes),
\* byte k carrying framebuffer[2k] in its high nibble and framebuffer[2k+1]
\* in its low nibble, in row-major order; no index is out of range.
C8_FlushStreamsPackedFramebuffer ==
    /\ ~idx_fault
    /\ (prog = "flush" /\ Len(bus) > 5) =>
          /\ Len(bus) <= 5 + 64
          /\ PixelTransferOK(Len(bus))
    /\ returned = "flush" =>
          /\ Len(bus) = 5 + 64
          /\ \A j \in 6 .. Len(bus) : PixelTransferOK(j)

\* a flush has returned after streaming a frame whose first byte holds an
\* even pixel of intensity 5 and whose last byte holds an odd pixel of 15
C8_Witness ==
    /\ returned = "flush"
    /\ PixelAt(0, 0) = 5 /\ PixelAt(1, 0) = 0
    /\ ByteAt(bus[6].bytes, 1) = 80
    /\ PixelAt(254, 63) = 0 /\ PixelAt(255, 63) = 15
    /\ ByteAt(bus[69].bytes, 128) = 15

FlushHeader ==
    << <<0, <<21>> >>, <<1, <<28, 91>> >>, <<0, <<117>> >>,
       <<1, <<0, 63>> >>, <<0, <<92>> >> >>

\* C9: the transfers of every flush are, in order, command 0x15, data
\* [0x1C, 0x5B], command 0x75, data [0, 63], command 0x5C, and only then
\* pixel data (data transfers of 128 bytes); the same on every flush.
C9_FlushAddressWindowFirst ==
    /\ \A j \in 1 .. Len(bus) :
          bus[j].call = "flush" =>
            /\ bus[j].op = "write"
            /\ j <= 5 => << bus[j].dc, Dense(bus[j].bytes) >> = FlushHeader[j]
            /\ j > 5 => bus[j].dc = 1 /\ bus[j].by = "flush"
    /\ (prog = "flush" /\ xfer /\ CurIns.op = "stream") => Len(bus) > 5

\* the first pixel transfer of a flush of a drawn frame is under way
C9_Witness ==
    /\ prog = "flush" /\ xfer
    /\ Len(bus) = 6
    /\ PixelAt(0, 0) = 15

\* C10: command bytes go out with the command/data line low, data and pixel
\* bytes with it high; chip-select is low during every transfer and high
\* whenever send_command, send_data, flush or init has returned.
C10_SelectLinesFrameTransfers ==
    /\ \A j \in 1 .. Len(bus) :
          bus[j].op = "write" =>
            /\ bus[j].cs = 0
            /\ bus[j].by = "send_command" => bus[j].dc = 0
            /\ bus[j].by \in {"send_data", "flush"} => bus[j].dc = 1
    /\ xfer => cs = 0
    /\ returned \in {"send_command", "send_data", "flush", "init"} => cs = 1
    /\ prog = "none" => cs = 1

\* a whole flush (commands, data, 64 pixel transfers) has just returned
C10_Witness ==
    /\ returned = "flush"
    /\ cs = 1
    /\ Len(bus) = 69
    /\ bus[5].by = "send_command" /\ bus[4].by = "send_data"
    /\ bus[69].by = "flush" /\ bus[69].cs = 0

(***************************************************************************)
(* Properties of the display's initialisation and drawing.                 *)
(***************************************************************************)
\* the configuration opcodes of init, in the order the panel must see them
InitOpcodes ==
    << 253, 174, 179, 202, 162, 161, 160, 181, 171, 178,
       193, 199, 185, 177, 209, 187, 182, 190, 166, 169 >>

\* a transfer the panel reads as a command: command/data line low
IsCommand(e) == e.op = "write" /\ e.dc = 0

\* the command bytes seen on the bus so far, in order
CommandBytes ==
    LET s == SelectSeq(bus, IsCommand)
    IN  [j \in 1 .. Len(s) |-> ByteAt(s[j].bytes, 1)]

IsPrefix(s, t) == Len(s) <= Len(t) /\ s = SubSeq(t, 1, Len(s))

\* C11: init first holds reset low and then high, chip-select high, before
\* any command; its commands are the twenty configuration opcodes, each once
\* and in order, and then 0xAF, which follows a settle delay and is followed
\* by the final delay; until init has returned nothing is flushed or drawn.
C11_InitSequence ==
    /\ prog = "init" =>
          /\ IsPrefix(CommandBytes, InitOpcodes \o <<175>>)
          /\ framebuffer = ZeroFb
          /\ \A j \in 1 .. Len(bus) :
                /\ bus[j].call = "init"
                /\ j = 1 => bus[j].op = "delay" /\ bus[j].rst = 0 /\ bus[j].cs = 1
                /\ j = 2 => bus[j].op = "delay" /\ bus[j].rst = 1 /\ bus[j].cs = 1
                /\ bus[j].op = "write" => j > 2 /\ bus[j].rst = 1
                /\ (IsCommand(bus[j]) /\ ByteAt(bus[j].bytes, 1) = 175) =>
                      /\ bus[j - 1].op = "delay"
                      /\ ByteAt(bus[j - 1].bytes, 1) = 10
    /\ returned = "init" =>
          /\ CommandBytes = InitOpcodes \o <<175>>
          /\ IsCommand(bus[Len(bus) - 1])
          /\ ByteAt(bus[Len(bus) - 1].bytes, 1) = 175
          /\ bus[Len(bus)].op = "delay"
          /\ ByteAt(bus[Len(bus)].bytes, 1) = 50

\* init has just returned, after all twenty-one commands
C11_Witness ==
    /\ returned = "init"
    /\ prog = "none"
    /\ Len(CommandBytes) = 21
    /\ Len(bus) = 41

\* C13: a clear leaves every cell of the framebuffer 0, and starts no bus
\* transfer, logs nothing on the bus and changes no control line.
C13_ClearZeroesFramebufferOnly ==
    [][ (draws > 0 /\ draws' = 0) =>
          /\ \A idx \in 0 .. (DISPLAY_BUFFER_SIZE - 1) :
                FbGet(framebuffer', idx) = 0
          /\ bus' = bus
          /\ xfer' = xfer /\ ~xfer'
          /\ prog' = prog /\ ip' = ip
          /\ dc' = dc /\ cs' = cs /\ rst' = rst ]_vars

\* a frame with the last pixel lit was flushed, and the framebuffer has
\* just been cleared
C13_Witness ==
    /\ prog = "none" /\ returned = ""
    /\ draws = 0
    /\ FbGet(framebuffer, DISPLAY_BUFFER_SIZE - 1) = 0
    /\ Len(bus) = 69
    /\ ByteAt(bus[69].bytes, 128) = 15

\* the cells that differ between two framebuffers
Changed(fb1, fb2) ==
    { k \in (DOMAIN fb1) \cup (DOMAIN fb2) : FbGet(fb1, k) # FbGet(fb2, k) }

\* C14: writing a pixel at (x, y) with 0 <= x < 256 and 0 <= y < 64 stores
\* its intensity in cell x + y * 256 and changes no other cell; writing at
\* any other coordinate, negative ones included, changes no cell and no
\* index leaves the array.
C14_PixelWriteBoundsChecked ==
    \A c \in DrawCoords, luma \in DrawLumas :
        LET x   == c[1]
            y   == c[2]
            fb2 == DrawPixel(framebuffer, x, y, luma)
        IN  /\ DOMAIN fb2 \subseteq 0 .. (DISPLAY_BUFFER_SIZE - 1)
            /\ IF 0 <= x /\ x <= 255 /\ 0 <= y /\ y <= 63
               THEN /\ FbGet(fb2, x + y * 256) = luma
                    /\ Changed(framebuffer, fb2) \subseteq {x + y * 256}
               ELSE Changed(framebuffer, fb2) = {}

\* two pixel writes were done; one landed in the last cell, the other one
\* was out of range or hit the same cell
C14_Witness ==
    /\ draws = 2
    /\ DOMAIN framebuffer = {DISPLAY_BUFFER_SIZE - 1}
    /\ PixelAt(255, 63) = 5

\* C15: for intensities a, b in 0..15 the packed byte p = (a << 4) | b, on
\* 8 bits, has p >> 4 = a and p & 0x0F = b.
C15_PackRoundTrip ==
    prog = "packed" =>
        LET a == FbGet(framebuffer, 0)
            b == FbGet(framebuffer, 1)
            p == packed_chunk[1]
        IN  /\ p \in 0 .. 255
            /\ p \div 16 = a
            /\ p % 16 = b

\* the pair (15, 9) has been packed into 0xF9
C15_Witness ==
    /\ prog = "packed"
    /\ FbGet(framebuffer, 0) = 15 /\ FbGet(framebuffer, 1) = 9
    /\ packed_chunk = << 249 >>

(***************************************************************************)
(* Properties of the two tasks.                                            *)
(***************************************************************************)
\* the transfers of a returned flush are the address window, the write-RAM
\* command and the 64 packed chunks of the framebuffer
WholeFlushLogged ==
    /\ Len(bus) = 69
    /\ \A j \in 1 .. 5 : << bus[j].dc, Dense(bus[j].bytes) >> = FlushHeader[j]
    /\ \A j \in 6 .. 69 : PixelTransferOK(j)

\* C12: a bus transfer that ends with an error changes nothing but the
\* dropped result: framebuffer, control lines and bus log are as they were,
\* nothing halts, and the routine goes on exactly where it goes on after a
\* success (the next chunk, or the instruction after the transfer); a flush
\* or init in which transfers failed still performs all its transfers and
\* returns with chip-select high, and the render loop goes on.
C12_TransferFailureSwallowed ==
    /\ [][ (xfer /\ ~xfer' /\ ~spi_ok') =>
              /\ framebuffer' = framebuffer
              /\ dc' = dc /\ cs' = cs /\ rst' = rst
              /\ bus' = bus
              /\ loopVars' = loopVars
              /\ ~idx_fault' /\ prog' # "panic"
              /\ IF CurIns.op = "stream" /\
                    chunk_start + CHUNK_SIZE < DISPLAY_BUFFER_SIZE
                 THEN /\ ip' = ip /\ prog' = prog
                      /\ chunk_start' = chunk_start + CHUNK_SIZE
                 ELSE /\ ip' = ip + 1
                      /\ prog' = IF ip = Len(Program) THEN "none" ELSE prog ]_vars
    /\ [](failed =>
            /\ returned = "flush" => (WholeFlushLogged /\ cs = 1)
            /\ returned = "init" =>
                  (CommandBytes = InitOpcodes \o <<175>> /\ Len(bus) = 41 /\ cs = 1)
            /\ (dpc = "flush" /\ prog = "none") => ENABLED CycleEnd)

\* the last chunk of the first cycle's flush failed; all 69 transfers were
\* made and the loop is back at its top
C12_Witness ==
    /\ dpc = "top"
    /\ cycles = 1
    /\ failed /\ ~spi_ok
    /\ Len(bus) = 69
    /\ cs = 1

\* C16: the debounce and toggle state and the event list change only in a
\* step of the input task's update, which runs while the render task is
\* suspended, installs the whole result of update (state and events) at
\* once, and touches nothing of the display; the framebuffer and the control
\* lines change only in steps of the render task, which leave the button
\* state alone.
C16_TasksKeepToTheirState ==
    [][ /\ (<<states, raw_states, debounce_counters, toggle_states, events>>' #
            <<states, raw_states, debounce_counters, toggle_states, events>>) =>
              /\ bpc = "update" /\ bpc' = "sleep"
              /\ DisplaySuspended
              /\ dispVars' = dispVars
              /\ <<dpc, current_screen, time_since_vc, time_since_bms>>' =
                 <<dpc, current_screen, time_since_vc, time_since_bms>>
              /\ LET st == Update(CurrentButtonState, sample') IN
                 /\ states' = st.states
                 /\ raw_states' = st.raw_states
                 /\ debounce_counters' = st.debounce_counters
                 /\ toggle_states' = st.toggle_states
                 /\ events' = st.events
        /\ (<<framebuffer, dc, cs, rst>>' # <<framebuffer, dc, cs, rst>>) =>
              /\ btnVars' = btnVars
              /\ bpc' = bpc
              /\ dpc \in {"new", "fill", "match", "flush"} ]_vars

\* a poll has confirmed the press of LeftTurn while the render task was
\* suspended on a chunk transfer of a drawn frame
C16_Witness ==
    /\ prog = "flush" /\ xfer /\ Len(bus) = 40
    /\ bpc = "sleep"
    /\ events = << Toggled("LeftTurn", TRUE) >>
    /\ framebuffer # ZeroFb

\* C17: from the call of flush to its return no step changes the
\* framebuffer, so every chunk streamed is packed from the frame that was
\* complete at the call; the framebuffer changes only in the clearing and
\* drawing steps of a cycle, with no routine of the driver under way.
C17_FramebufferStableDuringFlush ==
    /\ [][ /\ (prog = "flush" \/ prog' = "flush") => framebuffer' = framebuffer
           /\ framebuffer' # framebuffer =>
                 /\ dpc \in {"fill", "match"}
                 /\ prog = "none" /\ prog' = "none"
                 /\ ~xfer ]_vars
    /\ []((prog = "flush" /\ Len(bus) > 5) => PixelTransferOK(Len(bus)))
    /\ []((dpc = "flush" /\ returned = "flush") => WholeFlushLogged)

\* the render task is suspended on the 35th chunk of a drawn frame, and the
\* input task has polled in the meantime
C17_Witness ==
    /\ dpc = "flush" /\ prog = "flush" /\ xfer
    /\ Len(bus) = 40
    /\ framebuffer # ZeroFb
    /\ bpc = "sleep"
    /\ run[7] >= 2

\* C18, in the form a finite run refutes: neither loop ever terminates, so
\* the core is never halted.
C18_NeitherLoopTerminates == ~Halted

\* C19: in the cycle that finds an index that names no screen the index is
\* reset to Main and the cycle goes on to its flush; once a cycle's match is
\* done the index names a known screen and keeps its value; and a cycle that
\* follows the flush of the blank frame of such a cycle draws the Main
\* screen.
C19_UnknownScreenFallsBackToMain ==
    /\ [][ /\ (dpc = "match" /\ current_screen \notin {0, 1}) =>
                 /\ current_screen' = 0
                 /\ dpc' = "flush_call"
                 /\ framebuffer' = framebuffer
           /\ current_screen \in {0, 1} => current_screen' = current_screen ]_vars
    /\ []((cycles >= 1 /\ dpc \notin {"fill", "match"}) =>
             current_screen \in {0, 1})
    /\ [](~Halted)
    /\ []((dpc = "flush_call" /\ cycles >= 2 /\ Len(bus) = 69 /\
           (\A j \in 6 .. 69 : DOMAIN bus[j].bytes.nz = {})) =>
             /\ current_screen = 0
             /\ framebuffer = MainScreen(ZeroFb, time_since_vc, time_since_bms))

\* the first cycle found index 99 and flushed a blank frame; the second
\* cycle has drawn the Main screen
C19_Witness ==
    /\ dpc = "flush_call" /\ cycles = 2
    /\ Len(bus) = 69
    /\ \A j \in 6 .. 69 : DOMAIN bus[j].bytes.nz = {}
    /\ current_screen = 0
    /\ framebuffer = MainScreen(ZeroFb, U32(0, 100), U32(0, 100))
    /\ framebuffer # DebugScreen(ZeroFb, U32(0, 100), U32(0, 100))

(***************************************************************************)
(* Properties of the liveness gauges.                                      *)
(***************************************************************************)
\* a <= b on u32
U32Le(a, b) == a.hi < b.hi \/ (a.hi = b.hi /\ a.lo <= b.lo)

\* the columns strictly inside the outline whose top interior row is lit, in
\* a framebuffer holding one gauge with its corner at (x, y)
FilledColumns(fb, x, y) ==
    { i \in 1 .. 28 : FbGet(fb, (x + i) + (y + 1) * 256) # 0 }

\* the interior cells of the bar that carry a fill shade
FillPixels(fb, x, y) ==
    { c \in (1 .. 28) \X (1 .. 8) :
        FbGet(fb, (x + c[1]) + (y + c[2]) * 256) \in
            {DISPLAY_MID_SHADE, DISPLAY_VLOW_SHADE} }

\* what the claim says of one gauge drawn for the elapsed time e into fb
GaugeAsClaimed(fb, e, timeout, x, y, Render(_)) ==
    LET dead  == e.hi > 0 \/ e.lo >= timeout
        \* 30 * clamp(e / timeout, 0, 1), rounded down
        width == IF dead THEN 30 ELSE (30 * e.lo) \div timeout
    IN  /\ FillEnd(e, timeout) = width
        /\ FilledColumns(fb, x, y) = 1 .. Min(width - 1, 28)
        /\ e = U32Zero => FillPixels(fb, x, y) = {}
        /\ \A e2 \in ElapsedValues :
              /\ U32Le(e, e2) =>
                    Cardinality(FilledColumns(fb, x, y)) <=
                    Cardinality(FilledColumns(Render(e2), x, y))
              /\ (dead /\ U32Le(e, e2)) => Render(e2) = fb

\* C20: for write_timeout (timeout 300) and write_bms_timeout (timeout 1000)
\* the fill ends at 30 * clamp(elapsed / timeout, 0, 1) rounded down; for
\* elapsed = 0 no fill pixel is drawn; a larger elapsed time never fills
\* fewer columns; and every elapsed time >= timeout draws the same pixels
\* with the same intensities.
C20_GaugeFillClampedMonotone ==
    /\ dpc = "vc" =>
          GaugeAsClaimed(framebuffer, time_since_vc, 300,
                         5 * FONT_WIDTH, 3 * FONT_HEIGHT + 4,
                         LAMBDA e : WriteTimeout(ZeroFb, e))
    /\ dpc = "bms" =>
          GaugeAsClaimed(framebuffer, time_since_bms, 1000,
                         8 * FONT_WIDTH, 3 * FONT_HEIGHT + 4,
                         LAMBDA e : WriteBmsTimeout(ZeroFb, e))

\* the BMS gauge has been drawn exactly at its timeout: dimmed fill, the
\* cross and the outline are in the framebuffer
C20_Witness ==
    /\ dpc = "bms"
    /\ time_since_bms = U32(0, 1000)
    /\ PixelAt(8 * FONT_WIDTH + 1, 3 * FONT_HEIGHT + 4 + 8) = DISPLAY_VLOW_SHADE
    /\ PixelAt(8 * FONT_WIDTH + 3, 3 * FONT_HEIGHT + 4 + 1) = DISPLAY_MID_SHADE
    /\ PixelAt(8 * FONT_WIDTH, 3 * FONT_HEIGHT + 4) = DISPLAY_WHITE

\* C26: in every reachable ButtonState every debounce counter is within
\* 0 .. THRESHOLD, and a counter at THRESHOLD means the debounced state
\* equals the stored raw state; in a poll a sample that differs from the
\* stored raw state resets the counter to 0, an equal sample adds one to a
\* counter below THRESHOLD and leaves a counter at THRESHOLD alone.
C26_CounterBoundedAndSettled ==
    /\ [](\A i \in Buttons :
            /\ debounce_counters[i] \in 0 .. THRESHOLD
            /\ debounce_counters[i] = THRESHOLD => states[i] = raw_states[i])
    /\ [][ \A i \in Buttons :
             /\ sample'[i] # raw_states[i] => debounce_counters'[i] = 0
             /\ (sample'[i] = raw_states[i] /\ debounce_counters[i] < THRESHOLD)
                   => debounce_counters'[i] = debounce_counters[i] + 1
             /\ (sample'[i] = raw_states[i] /\ debounce_counters[i] = THRESHOLD)
                   => debounce_counters'[i] = THRESHOLD ]_vars

\* Horn is held: its counter has stopped at THRESHOLD for more than one poll
\* while LeftTurn's was reset by a differing sample
C26_Witness ==
    /\ debounce_counters[4] = THRESHOLD
    /\ states[4] /\ raw_states[4]
    /\ run[4] > THRESHOLD + 1
    /\ debounce_counters[7] = 0 /\ run[7] = 1

\* what a poll makes of button i when only its own entries and its own
\* sample are looked at
Alone(i, raw_i) ==
    DebounceButton([ states            |-> states,
                     raw_states        |-> raw_states,
                     debounce_counters |-> debounce_counters,
                     toggle_states     |-> toggle_states,
                     events            |-> <<>>,
                     push_failed       |-> FALSE ],
                   [j \in Buttons |-> IF j = i THEN raw_i ELSE raw_states[j]], i)

\* the Toggle button that owns a toggle_states entry
OwnerOf(t) == CHOOSE i \in ToggleButtons : ToggleIdxOf(ButtonIdOf(i)) = t

\* C27: in a poll the new raw state, counter, debounced state and events of
\* button i are what its own sample and previous entries give, whatever the
\* other buttons' samples are; every toggle_states entry is what its owner
\* (LeftTurn 0, RightTurn 1, Lock 2) alone makes of it, so a Regular button
\* changes none and a Toggle button only its own.
C27_ButtonsIndependent ==
    [][ /\ \A i \in Buttons :
             LET a == Alone(i, sample'[i]) IN
             /\ raw_states'[i] = a.raw_states[i]
             /\ debounce_counters'[i] = a.debounce_counters[i]
             /\ states'[i] = a.states[i]
             /\ EventsOf(events', ButtonIdOf(i)) = a.events
        /\ \A t \in 0 .. (NUM_TOGGLES - 1) :
             toggle_states'[t] = Alone(OwnerOf(t), sample'[OwnerOf(t)]).toggle_states[t]
        /\ ToggleIdxOf("LeftTurn") = 0
        /\ ToggleIdxOf("RightTurn") = 1
        /\ ToggleIdxOf("Lock") = 2 ]_vars

\* every button's press was confirmed in one poll: the three Toggle buttons
\* each flipped their own entry, LeftTurn for the second time
C27_Witness ==
    /\ Len(events) = EVENT_CAPACITY
    /\ ~toggle_states[0] /\ toggle_states[1] /\ toggle_states[2]

\* the positions of the render loop in the order of one cycle; a panic in
\* the arithmetic of a cycle (see C18) ends the task instead
CycleOrder ==
    { <<"top", "fill">>, <<"fill", "match">>, <<"match", "flush_call">>,
      <<"flush_call", "flush">>, <<"flush", "top">>,
      <<"top", "panic">>, <<"match", "panic">> }

ShadeOf(cells) ==
    LET vals == { FbGet(framebuffer, c[1] + c[2] * DISPLAY_WIDTH) : c \in cells }
    IN  IF Cardinality(vals) = 1 THEN CHOOSE v \in vals : TRUE ELSE 0 - 1

RightSignalCells == { <<DISPLAY_WIDTH - 4 - c[1], c[2]>> : c \in LeftSignalCells }

\* a frame of the Main screen is drawn and not yet cleared
MainFrameDrawn ==
    /\ dpc \in {"flush_call", "flush"}
    /\ glyphs = MainGlyphs(vehicle_state)

\* C22: in every frame of the Main screen each turn-signal arrow has the
\* full intensity when its blink phase is on and the dim intensity when its
\* blink phase is off.  (Violated: both arrows are drawn dim in every frame,
\* whatever the phases are.)
C22_ArrowFollowsBlinkPhase ==
    MainFrameDrawn =>
       /\ ShadeOf(LeftSignalCells) =
             IF left_blink THEN DISPLAY_WHITE ELSE DISPLAY_LOW_SHADE
       /\ ShadeOf(RightSignalCells) =
             IF right_blink THEN DISPLAY_WHITE ELSE DISPLAY_LOW_SHADE

\* the vehicle state with both motors turning the other way
Reversed(vs) ==
    [vs EXCEPT !.left_motor_velocity = 0 - vs.left_motor_velocity,
               !.right_motor_velocity = 0 - vs.right_motor_velocity]

\* C23: the speed drawn for the motor velocities (l, r) is the speed drawn
\* for (-l, -r).  (Violated: the larger signed velocity is taken before the
\* absolute value, so (1, 2) shows 2 and (-1, -2) shows 1.)
C23_SpeedIgnoresDirection ==
    dpc = "speed" =>
       glyphs = WriteSpeed(MaxVelocity(Reversed(vehicle_state)))

\* the cell of the hardware bit marker of regen and of throttle
RegenBitCell == <<0 * FONT_WIDTH + 1, 1 * FONT_HEIGHT - 1>>
ThrottleBitCell == <<1 * FONT_WIDTH - 1, 1 * FONT_HEIGHT - 1>>

\* the three-way policy of the indicators
PolicyShade(enabled, engaged) ==
    IF ~enabled THEN DISPLAY_VLOW_SHADE
    ELSE IF engaged THEN DISPLAY_WHITE
    ELSE DISPLAY_MID_SHADE

\* regen and throttle follow the three-way policy on their own flags, and
\* the hardware bit sets nothing but the marker pixel next to each glyph
RegenThrottleAsClaimed ==
    LET vs == vehicle_state IN
    /\ Len(glyphs) = 2
    /\ glyphs[1].text = "R"
    /\ glyphs[1].fg = PolicyShade(vs.regen_enabled, vs.brake_pressed)
    /\ glyphs[2].text = "T"
    /\ glyphs[2].fg = PolicyShade(vs.throttle_enabled, vs.throttle_pressed)
    /\ ShadeOf({RegenBitCell}) =
          IF vs.throttle_value > 2 THEN DISPLAY_WHITE ELSE DISPLAY_BLACK
    /\ ShadeOf({ThrottleBitCell}) =
          IF vs.throttle_value > 2 THEN DISPLAY_WHITE ELSE DISPLAY_BLACK
    /\ \A k \in DOMAIN framebuffer :
          \/ k \in { c[1] + c[2] * DISPLAY_WIDTH :
                       c \in {RegenBitCell, ThrottleBitCell} }
          \/ k \in { c[1] + c[2] * DISPLAY_WIDTH : c \in LockCells }

\* C24 as stated: regen, throttle and lock each follow the three-way policy;
\* the lock function has no enable flag, so a lock that is not engaged is
\* enabled but idle and would be drawn mid-level.
C24_Original ==
    dpc = "indicators" =>
       /\ RegenThrottleAsClaimed
       /\ ShadeOf(LockCells) = PolicyShade(TRUE, vehicle_state.lock_on)

\* C24: regen and throttle are drawn with the barely-visible shade when
\* disabled, the full-bright shade when enabled and engaged, the mid-level
\* shade when enabled but idle, whatever the hardware bit is, which only
\* sets the marker pixel next to each glyph; the lock has two levels:
\* full-bright when engaged, barely visible when not.
C24_IndicatorShades ==
    dpc = "indicators" =>
       /\ RegenThrottleAsClaimed
       /\ ShadeOf(LockCells) =
             IF vehicle_state.lock_on THEN DISPLAY_WHITE
             ELSE DISPLAY_VLOW_SHADE

\* regen is enabled and idle (mid-level), throttle enabled and engaged with
\* the hardware bit set, the lock not engaged
C24_Witness ==
    /\ dpc = "indicators"
    /\ glyphs[1].fg = DISPLAY_MID_SHADE
    /\ glyphs[2].fg = DISPLAY_WHITE
    /\ ShadeOf({ThrottleBitCell}) = DISPLAY_WHITE
    /\ ShadeOf(LockCells) = DISPLAY_VLOW_SHADE

\* C25: after any sequence of clear, pixel writes, drawing routines and
\* flushes the framebuffer has DISPLAY_WIDTH * DISPLAY_HEIGHT = 16384 cells
\* (no cell outside 0 .. 16383 is ever written) and every cell holds a value
\* in 0 .. 15; so in every byte a flush has sent the high nibble is the even
\* cell and the low nibble the odd cell of its pair.
C25_FramebufferCellsAreNibbles ==
    /\ DISPLAY_BUFFER_SIZE = 256 * 64
    /\ DOMAIN framebuffer \subseteq 0 .. (DISPLAY_BUFFER_SIZE - 1)
    /\ \A k \in DOMAIN framebuffer : framebuffer[k] \in 1 .. 15
    /\ (prog = "flush" /\ Len(bus) > 5) =>
          LET j == Len(bus) IN
          \A m \in 1 .. (CHUNK_SIZE \div 2) :
             LET k == (j - 6) * CHUNK_SIZE + 2 * (m - 1)
                 b == ByteAt(bus[j].bytes, m)
             IN  /\ b \div 16 = FbGet(framebuffer, k)
                 /\ b % 16 = FbGet(framebuffer, k + 1)

\* a dead gauge was drawn, a pixel written next to the first one, and the
\* flush of that frame has sent its last chunk
C25_Witness ==
    /\ framebuffer = DrawPixel(WriteBmsTimeout(ZeroFb, LateCount), 1, 0, 5)
    /\ prog = "flush"
    /\ Len(bus) = 5 + DISPLAY_BUFFER_SIZE \div CHUNK_SIZE
    /\ ~xfer

\* C28: the blink phases and last_blink change only in the Main screen's
\* call of write_turn_signal_state, and only when current_time - last_blink,
\* taken on 32 bits, is strictly greater than 500: then both phases flip and
\* last_blink becomes current_time; otherwise all three stay as they are.
\* Hence the two phases are always equal, they flip at most once in a
\* render, and between two flips the time source has advanced by more than
\* 500 ms, also when its 32-bit reading has wrapped around in between.
C28_BlinkFlipsTogetherAfter500 ==
    /\ [][ LET due == U32Gt(U32WrappingSub(current_time, last_blink), 500) IN
           /\ (<<left_blink, right_blink, last_blink>>' #
               <<left_blink, right_blink, last_blink>>) =>
                 /\ dpc = "match" /\ dpc' = "flush_call"
                 /\ current_screen = 0
                 /\ due
           /\ (dpc = "match" /\ dpc' = "flush_call" /\ current_screen = 0) =>
                 IF due
                 THEN /\ left_blink' = ~left_blink
                      /\ right_blink' = ~right_blink
                      /\ last_blink' = current_time
                      /\ flips' = flips + 1
                      /\ flips >= 1 => elapsed - flip_at > 500
                 ELSE /\ UNCHANGED <<left_blink, right_blink, last_blink>>
                      /\ flips' = flips ]_vars
    /\ [](left_blink = right_blink)

\* the phases, on since the reading 2^32 - 76, flipped off at the reading
\* 485, taken 501 ms after the time source stood at 2^32 - 16
C28_Witness ==
    /\ dpc = "flush_call"
    /\ last_blink = U32(0, 485)
    /\ current_time = U32(0, 485)
    /\ ~left_blink /\ ~right_blink
    /\ flips = 2
    /\ elapsed - flip_at = 0

\* C29: every cycle adds exactly 50 to each of the two elapsed-time counters
\* without leaving the 32-bit range and goes on to the clear, no step makes
\* a counter smaller, and a gauge that is dead (its counter at or above its
\* timeout) stays dead.  (Violated: after 85,899,345 cycles the counters hold
\* 2^32 - 46 and the next `+= 50` either panics or wraps to 4.)
C29_CountersGrowBy50 ==
    [][ /\ (dpc = "top" /\ dpc' # "top") =>
              /\ dpc' = "fill"
              /\ ~U32AddOverflows(time_since_vc, 50)
              /\ ~U32AddOverflows(time_since_bms, 50)
              /\ time_since_vc' = U32WrappingAdd(time_since_vc, 50)
              /\ time_since_bms' = U32WrappingAdd(time_since_bms, 50)
        /\ U32Le(time_since_vc, time_since_vc')
        /\ U32Le(time_since_bms, time_since_bms')
        /\ U32Ge(time_since_vc, VC_TIMEOUT) => U32Ge(time_since_vc', VC_TIMEOUT)
        /\ U32Ge(time_since_bms, BMS_TIMEOUT) =>
              U32Ge(time_since_bms', BMS_TIMEOUT) ]_vars

\* the cycle under way found an index that names no screen: its frame has
\* no text call (every Main and Debug frame has some)
UnknownIndexFrame == dpc \in {"flush_call", "flush"} /\ glyphs = <<>>

\* C30: the arm taken for an unrecognized index draws nothing and leaves
\* both blink phases, last_blink and the count of flips as they are, also
\* when a flip is due; the frame of that cycle is the cleared framebuffer,
\* and every pixel byte its flush sends is zero.
C30_UnknownIndexBlankFrame ==
    /\ [][ (dpc = "match" /\ current_screen \notin {0, 1}) =>
              /\ framebuffer = ZeroFb
              /\ framebuffer' = ZeroFb
              /\ glyphs' = <<>>
              /\ UNCHANGED <<left_blink, right_blink, last_blink, flips,
                             flip_at>>
              /\ dpc' = "flush_call" ]_vars
    /\ [](UnknownIndexFrame =>
             /\ framebuffer = ZeroFb
             /\ prog = "flush" =>
                   \A j \in 6 .. Len(bus) :
                      /\ bus[j].bytes.len = CHUNK_SIZE \div 2
                      /\ DOMAIN bus[j].bytes.nz = {}
             /\ (dpc = "flush" /\ returned = "flush") => WholeFlushLogged)

\* the blank frame of a cycle that began 501 ms after start_time with the
\* index 99 has been flushed: a flip was due and did not happen
C30_Witness ==
    /\ UnknownIndexFrame
    /\ dpc = "flush" /\ returned = "flush"
    /\ cycles = 1
    /\ current_time = U32(0, 501)
    /\ last_blink = U32Zero
    /\ BlinkDue(last_blink, current_time)
    /\ ~left_blink /\ ~right_blink
    /\ flips = 0

====
